---- MODULE Spec2Model ----
(***************************************************************************)
(* The notification scheduler of wuchris-ch/notification-app.              *)
(*                                                                         *)
(* Two processes share one relational store:                               *)
(*   - the API (api/app/main.py), which creates, updates and deletes       *)
(*     reminders and channels;                                             *)
(*   - the scheduler (api/scheduler_main.py): watcher() calls              *)
(*     register_all() every 10 s, and the APScheduler registry starts      *)
(*     fire(reminder_id) when a job's next run time has elapsed.           *)
(*                                                                         *)
(* Time is counted in ticks of one hour; `now` is the hour the wall clock  *)
(* is in (the clock reads a time in [now, now+1)), tick 0 being            *)
(* 1970-01-01 00:00 UTC.  The crons of the model fire on the hour.         *)
(***************************************************************************)
EXTENDS Integers, Sequences, FiniteSets, TLC

\* ------------------------------------------------------------------ bounds
MaxRem == 2        \* reminder ids 1..MaxRem are ever allocated
MaxChan == 2       \* channels 1..MaxChan exist
MaxTime == 2       \* Spec: the clock stops after this many ticks
MaxEdits == 2      \* Spec: API requests served per behaviour
FireMaxRem == 1    \* FireSpec: reminders the API creates, the seeded one counted
FireMaxTime == 1   \* FireSpec: the clock stops after this many ticks
FireMaxEdits == 1  \* FireSpec: API requests served per behaviour

RemIds == 1..MaxRem
ChanIds == 1..MaxChan

\* ------------------------------------------------- cron expressions, zones
\* A cron is its five fields <<minute, hour, day, month, day_of_week>>.
Star == [k |-> "star", a |-> 0, b |-> 0]
Val(n) == [k |-> "val", a |-> n, b |-> n]
Step(n) == [k |-> "step", a |-> n, b |-> 0]

CronHourly == <<Val(0), Star, Star, Star, Star>>       \* "0 * * * *"
CronEvery2h == <<Val(0), Step(2), Star, Star, Star>>   \* "0 */2 * * *"
CronEvery3h == <<Val(0), Step(3), Star, Star, Star>>   \* "0 */3 * * *"
CronDow7 == <<Val(0), Val(8), Star, Star, Val(7)>>     \* "0 8 * * 7"
CronDaily8 == <<Val(0), Val(8), Star, Star, Star>>     \* "0 8 * * *"
CronMin99 == <<Val(99), Star, Star, Star, Star>>       \* "99 * * * *"
CronSunday14 == <<Val(0), Val(14), Star, Star, Val(0)>>  \* "0 14 * * 0"

DefaultTz == "America/Vancouver"
Tzs == {"UTC", "America/Vancouver"}

FieldOk(f, lo, hi) ==
    CASE f.k = "star" -> TRUE
      [] f.k = "val" -> lo <= f.a /\ f.a <= hi
      [] f.k = "step" -> f.a >= 1
      [] f.k = "range" -> lo <= f.a /\ f.a <= f.b /\ f.b <= hi
      [] f.k = "list" -> \A i \in DOMAIN f.a : lo <= f.a[i] /\ f.a[i] <= hi
      [] OTHER -> FALSE

\* croniter(expr) of the API: day_of_week runs 0..7 (7 is Sunday again).
CroniterAccepts(c) ==
    /\ Len(c) = 5
    /\ FieldOk(c[1], 0, 59) /\ FieldOk(c[2], 0, 23) /\ FieldOk(c[3], 1, 31)
    /\ FieldOk(c[4], 1, 12) /\ FieldOk(c[5], 0, 7)

\* CronTrigger.from_crontab(expr) of the scheduler: day_of_week runs 0..6.
FromCrontabOk(c) ==
    /\ Len(c) = 5
    /\ FieldOk(c[1], 0, 59) /\ FieldOk(c[2], 0, 23) /\ FieldOk(c[3], 1, 31)
    /\ FieldOk(c[4], 1, 12) /\ FieldOk(c[5], 0, 6)

\* pytz.all_timezones membership, as the API checks it.
PytzKnows(z) == z \in Tzs

\* The clock counts hours from 1970-01-01 00:00 UTC.  In 1970 Vancouver
\* went to daylight time on Sunday 26 April at 02:00 PST (10:00 UTC) and back
\* on Sunday 25 October at 02:00 PDT (09:00 UTC).
DstStart == 115 * 24 + 10
DstEnd == 297 * 24 + 9

\* Hours east of UTC with the zone's daylight rule left out.
UtcOffsetFixed(z, t) == IF z = "America/Vancouver" THEN -8 ELSE 0

\* Hours east of UTC of zone z at instant t.
UtcOffset(z, t) ==
    IF z = "America/Vancouver"
    THEN (IF DstStart <= t /\ t < DstEnd THEN -7 ELSE -8)
    ELSE 0

\* The zone the scheduler process itself runs in.
LocalTz == "UTC"

\* tz.gettz(reminder.timezone or "America/Vancouver"), as the trigger takes
\* it: tz.gettz(name) is None for a name the zone database does not have,
\* and a CronTrigger built with timezone=None takes the zone of the process.
GetTz(z) == IF z = "" THEN DefaultTz ELSE IF z \in Tzs THEN z ELSE LocalTz

LocalHour(z, t) == (t + UtcOffset(z, t)) % 24
LocalDay(z, t) == (t + UtcOffset(z, t)) \div 24       \* 0 is 1970-01-01

\* The day of the year 1970 on which each month begins.
MonthStarts == <<0, 31, 59, 90, 120, 151, 181, 212, 243, 273, 304, 334>>

MonthOf(d) ==
    IF d < 0 THEN 12
    ELSE CHOOSE m \in 1..12 :
             MonthStarts[m] <= d /\ (m = 12 \/ d < MonthStarts[m + 1])
DayOfMonth(d) == IF d < 0 THEN 32 + d ELSE d - MonthStarts[MonthOf(d)] + 1
Weekday(d) == (3 + d) % 7                             \* APScheduler: 0 is Monday

FieldMatches(f, v) ==
    CASE f.k = "star" -> TRUE
      [] f.k = "val" -> v = f.a
      [] f.k = "step" -> v % f.a = 0
      [] f.k = "range" -> f.a <= v /\ v <= f.b
      [] f.k = "list" -> \E i \in DOMAIN f.a : v = f.a[i]
      [] OTHER -> FALSE

\* Whether the trigger (cron c in zone z) fires at tick t.
IsFireInstant(c, z, t) ==
    /\ FieldMatches(c[1], 0)
    /\ FieldMatches(c[2], LocalHour(z, t))
    /\ FieldMatches(c[3], DayOfMonth(LocalDay(z, t)))
    /\ FieldMatches(c[4], MonthOf(LocalDay(z, t)))
    /\ FieldMatches(c[5], Weekday(LocalDay(z, t)))

\* How far ahead a next fire instant is looked for: a week and the hour a
\* daylight transition can add to it.
Window == 7 * 24 + 1
NoRun == 366 * 24

\* The first fire instant in from..upto, NoRun when there is none; looked
\* for a day at a time.
RECURSIVE FirstFire(_, _, _, _)
FirstFire(c, z, from, upto) ==
    IF from > upto THEN NoRun
    ELSE LET hi == IF from + 23 < upto THEN from + 23 ELSE upto
             S == {u \in from..hi : IsFireInstant(c, z, u)}
         IN IF S # {} THEN CHOOSE u \in S : \A w \in S : u <= w
            ELSE FirstFire(c, z, hi + 1, upto)

\* get_next_fire_time taking the fire instant of the running hour as still
\* to come: the first fire instant at or after the clock's hour.
NextFireFrom(c, z, t) == FirstFire(c, z, t, t + Window)

\* trigger.get_next_fire_time: the first fire instant after the clock reading.
NextFireAfter(c, z, t) == FirstFire(c, z, t + 1, t + Window)

\* The last fire instant in from..upto (the run time APScheduler keeps when it
\* coalesces the run times a job has missed).
LastFireUpTo(c, z, from, upto) ==
    LET S == {u \in from..upto : IsFireInstant(c, z, u)}
    IN IF S = {} THEN NoRun ELSE CHOOSE u \in S : \A w \in S : u >= w

\* ------------------------------------------------------------------- state
VARIABLES
    reminders,          \* store: reminders table, by id
    reminder_channels,  \* store: junction rows, counted per <<reminder, channel>>
    channels,           \* store: channels table, by id
    delivery_logs,      \* store: delivery_logs table, in insertion order
    nextRemId,          \* store: next value of the reminders id sequence
    edits,              \* API requests served so far
    now,                \* the clock
    jobs,               \* scheduler: the job store of the APScheduler registry
    pass,               \* scheduler: where watcher()/register_all() stands
    fire,               \* scheduler: the running fire(reminder_id), per reminder
    dirty,              \* history: reminders changed since a pass last read the store
    fired,              \* history: <<reminder, run time>> of every fire started
    missed,             \* history: <<reminder, run time>> APScheduler skipped
    synth,              \* API: the structured parse being turned into a cron
    resp,               \* API: the last request served and its response status
    mig                 \* migration: the old tables and where migrate_data stands

storeVars == <<reminders, reminder_channels, channels, delivery_logs, nextRemId>>
histVars == <<dirty>>
schedVars == <<jobs, pass, fire, fired, missed>>
vars == <<reminders, reminder_channels, channels, delivery_logs, nextRemId,
          edits, now, jobs, pass, fire, dirty, fired, missed, synth, resp, mig>>

NoReminder == [exists |-> FALSE, enabled |-> FALSE, cron |-> CronHourly,
               timezone |-> DefaultTz]

\* pc: sleep, query, register or dead; n: completed passes (2: two or more);
\* prev: the jobs the registry held when the pass began; clean: nothing
\* changed in the store between the previous pass's read and this one's.
IdlePass == [pc |-> "sleep", rows |-> <<>>, read |-> <<>>, clean |-> FALSE,
             n |-> 0, prev |-> {}]

\* pc: idle, fetch, loop, post or done.  seen, assoc and live keep what the
\* store held at the re-fetch; wait is the channel whose send_ntfy call is
\* awaited (0 for none); calls are the relay's answers to the send_ntfy calls
\* that returned, outcomes the DeliveryLog rows added to the session, both
\* per channel.
IdleFire == [pc |-> "idle", seen |-> "none", assoc |-> {}, live |-> {},
             todo |-> {}, wait |-> 0, calls |-> [c \in ChanIds |-> <<>>],
             outcomes |-> [c \in ChanIds |-> <<>>], result |-> "none"]

\* No request of the AI endpoints is being served.
NoSynth == [pc |-> "none"]
NoResp == [status |-> 0, op |-> "none", args |-> <<>>]

\* The old tables: users and alert_channels, by id.
MaxUsers == 2
MaxAlerts == 1

UserIds == 1..MaxUsers
AlertIds == 1..MaxAlerts

\* NULL in a column of the store (None to the ORM), which is not the empty
\* string.
SqlNull == "NULL"

NoUser == [exists |-> FALSE, name |-> "", ntfy_topic |-> "", timezone |-> ""]
NoAlert == [exists |-> FALSE, name |-> "", ntfy_topic |-> "", enabled |-> FALSE]

\* What is left of a user or an alert channel that was deleted: its id is
\* not given again.
DeletedUser == [NoUser EXCEPT !.name = "(deleted)"]
DeletedAlert == [NoAlert EXCEPT !.name = "(deleted)"]

\* The old tables empty, every reminder's user_id and alert_channel_id NULL
\* (0), no reminder's timezone NULL, and no migration script run.  columns
\* says that reminders has its user_id and alert_channel_id columns,
\* users_table and alert_channels_table that the table is there.
NoMig == [pc |-> "none", run |-> 0, columns |-> TRUE, users_table |-> TRUE,
          alert_channels_table |-> TRUE,
          users |-> [u \in UserIds |-> NoUser],
          alerts |-> [a \in AlertIds |-> NoAlert],
          user_id |-> [r \in RemIds |-> 0],
          alert_channel_id |-> [r \in RemIds |-> 0],
          tznull |-> {},
          umap |-> [u \in UserIds |-> 0],
          amap |-> [a \in AlertIds |-> 0],
          before |-> <<>>, after1 |-> <<>>, served |-> 0, quiet1 |-> FALSE,
          qpc |-> "none", qrun |-> 0, qres |-> "none"]

\* The names and delivery topics channels are given.
Names == <<"home", "work", "family">>
Topics == <<"t-home", "t-work", "t-family">>

NoChannel ==
    [exists |-> FALSE, enabled |-> FALSE, name |-> "", ntfy_topic |-> "",
     timezone |-> ""]

\* What is left of a channel that was deleted: its id is not given again.
DeletedChannel == [NoChannel EXCEPT !.name = "(deleted)"]

\* Channel c as the store holds it before any request changes it.
SeedChannel(c) ==
    [exists |-> TRUE, enabled |-> TRUE, name |-> Names[c], ntfy_topic |-> Topics[c],
     timezone |-> DefaultTz]

\* reminder.channels read without the join: every channel of the store.
ChannelsOfUnjoined(r) == {c \in ChanIds : channels[c].exists}

\* reminder.channels: the channels joined through reminder_channels, each once.
ChannelsOf(r) == {c \in ChanIds : channels[c].exists /\ reminder_channels[<<r, c>>] > 0}

\* The scheduler process starts (registry empty, before its first pass)
\* against a store that holds the channels and, when `seeded`, reminder 1 as
\* POST /api/reminders made it from (cron, tz, ids).
InitWith(seeded, cron, tz, ids) ==
    /\ reminders = [r \in RemIds |->
            IF seeded /\ r = 1
            THEN [exists |-> TRUE, enabled |-> TRUE, cron |-> cron, timezone |-> tz]
            ELSE NoReminder]
    /\ reminder_channels = [p \in RemIds \X ChanIds |->
            IF seeded /\ p[1] = 1
            THEN Cardinality({i \in 1..Len(ids) : ids[i] = p[2]}) ELSE 0]
    /\ channels = [c \in ChanIds |-> SeedChannel(c)]
    /\ delivery_logs = <<>>
    /\ nextRemId = IF seeded THEN 2 ELSE 1
    /\ edits = 0
    /\ now = 0
    /\ jobs = {}
    /\ pass = IdlePass
    /\ fire = [r \in RemIds |-> IdleFire]
    /\ dirty = {}
    /\ fired = {}
    /\ missed = {}
    /\ synth = NoSynth
    /\ resp = NoResp
    /\ mig = NoMig

\* --------------------------------------------------------- the API process
\* Every handler runs in one store transaction: commit at its end, or the
\* session is closed without commit when it raises, which rolls back.

\* The junction rows with those of reminder r replaced by one row per list entry.
WithChannels(rc, r, ids) ==
    [p \in RemIds \X ChanIds |->
        IF p[1] = r THEN Cardinality({i \in 1..Len(ids) : ids[i] = p[2]}) ELSE rc[p]]

\* get_db(): the session is closed when the handler has raised; with
\* autocommit off that rolls the staged rows back to the committed ones.
SessionCloseKeeping(committed, staged) == staged

SessionClose(committed, staged) == committed

Response(status, op, args) == [status |-> status, op |-> op, args |-> args]

\* POST /api/reminders
CreateReminder(cron, tz, ids) ==
    LET status ==
            IF Len(ids) = 0 THEN 400
            ELSE IF \E i \in 1..Len(ids) : ~channels[ids[i]].exists THEN 404
            ELSE IF ~CroniterAccepts(cron) THEN 422
            ELSE IF tz # "" /\ ~PytzKnows(tz) THEN 422
            ELSE IF ~mig.columns THEN 500
            ELSE 200
    IN
    /\ nextRemId <= MaxRem
    /\ edits' = edits + 1
    /\ resp' = Response(status, "create_reminder",
                        [channel_ids |-> ids, cron |-> cron, timezone |-> tz])
    /\ IF status # 200
       THEN UNCHANGED <<storeVars, histVars>>
       ELSE /\ reminders' = [reminders EXCEPT ![nextRemId] =
                    [exists |-> TRUE, enabled |-> TRUE, cron |-> cron, timezone |-> tz]]
            /\ reminder_channels' = WithChannels(reminder_channels, nextRemId, ids)
            /\ nextRemId' = nextRemId + 1
            /\ dirty' = dirty \cup {nextRemId}
            /\ UNCHANGED <<channels, delivery_logs>>
    /\ UNCHANGED <<now, fired, missed, jobs, pass, fire, synth, mig>>

\* PUT /api/reminders/{id}; `has` names the fields the request sets.  The
\* new junction rows are staged in the session (lines 306-325) before the
\* cron and the timezone are looked at (lines 328-336).
UpdateReminder(r, has, ids, cron, tz, en) ==
    LET found == mig.columns /\ reminders[r].exists
        known == \A i \in 1..Len(ids) : channels[ids[i]].exists
        staged ==
            IF found /\ "channel_ids" \in has /\ known
            THEN WithChannels(reminder_channels, r, ids)
            ELSE reminder_channels
        status ==
            IF ~mig.columns THEN 500
            ELSE IF ~found THEN 404
            ELSE IF "channel_ids" \in has /\ ~known THEN 404
            ELSE IF "cron" \in has /\ ~CroniterAccepts(cron) THEN 422
            ELSE IF "timezone" \in has /\ ~PytzKnows(tz) THEN 422
            ELSE 200
    IN
    /\ edits' = edits + 1
    /\ resp' = Response(status, "update_reminder",
                        [id |-> r, has |-> has, channel_ids |-> ids, cron |-> cron,
                         timezone |-> tz, enabled |-> en])
    /\ IF status # 200
       THEN /\ reminder_channels' = SessionClose(reminder_channels, staged)
            /\ UNCHANGED <<reminders, channels, delivery_logs, nextRemId, histVars>>
       ELSE /\ reminder_channels' = staged
            /\ reminders' = [reminders EXCEPT ![r] =
                    [exists |-> TRUE,
                     enabled |-> IF "enabled" \in has THEN en ELSE @.enabled,
                     cron |-> IF "cron" \in has THEN cron ELSE @.cron,
                     timezone |-> IF "timezone" \in has THEN tz ELSE @.timezone]]
            /\ dirty' = dirty \cup {r}
            /\ UNCHANGED <<channels, delivery_logs, nextRemId>>
    /\ UNCHANGED <<now, fired, missed, jobs, pass, fire, synth, mig>>

\* The delivery_logs rows that are not of reminder r, in order.
RECURSIVE LogsNotOf(_, _)
LogsNotOf(rows, r) ==
    IF rows = <<>> THEN <<>>
    ELSE IF Head(rows).reminder_id # r
         THEN <<Head(rows)>> \o LogsNotOf(Tail(rows), r)
         ELSE LogsNotOf(Tail(rows), r)

\* The old columns of the reminders table with the rows of rs gone.
WithoutReminders(m, rs) ==
    [m EXCEPT !.user_id = [r \in RemIds |-> IF r \in rs THEN 0 ELSE @[r]],
              !.alert_channel_id = [r \in RemIds |-> IF r \in rs THEN 0 ELSE @[r]],
              !.tznull = @ \ rs]

\* DELETE /api/reminders/{id}
DeleteReminder(r) ==
    LET status == IF ~mig.columns THEN 500
                  ELSE IF ~reminders[r].exists THEN 404 ELSE 200
    IN
    /\ edits' = edits + 1
    /\ resp' = Response(status, "delete_reminder", [id |-> r])
    /\ IF status # 200
       THEN UNCHANGED <<storeVars, histVars, mig>>
       ELSE /\ reminder_channels' = WithChannels(reminder_channels, r, <<>>)
            /\ delivery_logs' = LogsNotOf(delivery_logs, r)
            /\ reminders' = [reminders EXCEPT ![r] = NoReminder]
            /\ mig' = WithoutReminders(mig, {r})
            /\ dirty' = dirty \cup {r}
            /\ UNCHANGED <<channels, nextRemId>>
    /\ UNCHANGED <<now, fired, missed, jobs, pass, fire, synth>>

\* every existing channel, the one excepted too
OtherChannelsAll(except) == {c \in ChanIds : channels[c].exists}

\* Channel.id != except: the existing channels other than `except`; 0 is no
\* channel's id.
OtherChannels(except) == {c \in ChanIds : channels[c].exists /\ c # except}

\* The id the channels sequence gives the next row: one more than the ids
\* it has given, those of deleted rows counted.
NextChanId == Cardinality({c \in ChanIds : channels[c] # NoChannel}) + 1

\* POST /api/channels
create_channel(name, ntfy_topic, tz) ==
    LET status ==
            IF \E c \in OtherChannels(0) : channels[c].name = name THEN 400
            ELSE IF \E c \in OtherChannels(0) : channels[c].ntfy_topic = ntfy_topic
                 THEN 400
            ELSE IF tz # "" /\ ~PytzKnows(tz) THEN 422
            ELSE 200
    IN
    /\ NextChanId \in ChanIds
    /\ edits' = edits + 1
    /\ resp' = Response(status, "create_channel",
                        [name |-> name, ntfy_topic |-> ntfy_topic, timezone |-> tz])
    /\ IF status # 200
       THEN UNCHANGED <<storeVars, histVars>>
       ELSE /\ channels' = [channels EXCEPT ![NextChanId] =
                    [exists |-> TRUE, enabled |-> TRUE, name |-> name,
                     ntfy_topic |-> ntfy_topic, timezone |-> tz]]
            /\ UNCHANGED <<reminders, reminder_channels, delivery_logs, nextRemId,
                           histVars>>
    /\ UNCHANGED <<now, fired, missed, jobs, pass, fire, synth, mig>>

\* PUT /api/channels/{id}; `has` names the fields the request sets.
update_channel(c, has, name, ntfy_topic, tz, en) ==
    LET status ==
            IF ~channels[c].exists THEN 404
            ELSE IF "name" \in has
                    /\ \E d \in OtherChannels(c) : channels[d].name = name THEN 400
            ELSE IF "ntfy_topic" \in has
                    /\ \E d \in OtherChannels(c) : channels[d].ntfy_topic = ntfy_topic
                 THEN 400
            ELSE IF "timezone" \in has /\ ~PytzKnows(tz) THEN 422
            ELSE 200
    IN
    /\ edits' = edits + 1
    /\ resp' = Response(status, "update_channel",
                        [id |-> c, has |-> has, name |-> name,
                         ntfy_topic |-> ntfy_topic, timezone |-> tz, enabled |-> en])
    /\ IF status # 200
       THEN UNCHANGED <<storeVars, histVars>>
       ELSE /\ channels' = [channels EXCEPT ![c] =
                    [exists |-> TRUE,
                     enabled |-> IF "enabled" \in has THEN en ELSE @.enabled,
                     name |-> IF "name" \in has THEN name ELSE @.name,
                     ntfy_topic |-> IF "ntfy_topic" \in has THEN ntfy_topic
                                    ELSE @.ntfy_topic,
                     timezone |-> IF "timezone" \in has THEN tz ELSE @.timezone]]
            /\ dirty' = RemIds
            /\ UNCHANGED <<reminders, reminder_channels, delivery_logs, nextRemId>>
    /\ UNCHANGED <<now, fired, missed, jobs, pass, fire, synth, mig>>

\* no look at reminder_channels before the delete
InUseNever(c) == FALSE

\* delete_channel, lines 137-140: reminder_channels rows name the channel.
InUse(c) == \E r \in RemIds : reminder_channels[<<r, c>>] > 0

\* DELETE /api/channels/{id}.  db.delete(channel) takes the channel's
\* reminder_channels rows with it; a delivery_logs row that names the
\* channel breaks its foreign key at the commit, which fails the request.
delete_channel(c) ==
    LET status ==
            IF ~channels[c].exists THEN 404
            ELSE IF InUse(c) THEN 400
            ELSE IF ~mig.columns THEN 500
            ELSE IF \E i \in 1..Len(delivery_logs) : delivery_logs[i].channel_id = c
                 THEN 500
            ELSE 200
    IN
    /\ edits' = edits + 1
    /\ resp' = Response(status, "delete_channel", [id |-> c])
    /\ IF status # 200
       THEN UNCHANGED <<storeVars, histVars>>
       ELSE /\ channels' = [channels EXCEPT ![c] = DeletedChannel]
            /\ reminder_channels' = [p \in RemIds \X ChanIds |->
                   IF p[2] = c THEN 0 ELSE reminder_channels[p]]
            /\ dirty' = RemIds
            /\ UNCHANGED <<reminders, delivery_logs, nextRemId>>
    /\ UNCHANGED <<now, fired, missed, jobs, pass, fire, synth, mig>>

\* PUT /api/channels/{id} setting `enabled`
UpdateChannel(c, en) == update_channel(c, {"enabled"}, "", "", "", en)

\* ------------------------------------------------ the API: the old endpoints
\* The old tables with one user, as POST /users made it.
SeedMig ==
    [NoMig EXCEPT !.users[1] = [exists |-> TRUE, name |-> Names[1],
                                ntfy_topic |-> Topics[1], timezone |-> DefaultTz]]

\* The ids the users and alert_channels sequences give the next row.
NextUserId == Cardinality({u \in UserIds : mig.users[u] # NoUser}) + 1
NextAlertId == Cardinality({a \in AlertIds : mig.alerts[a] # NoAlert}) + 1

\* db.get(User, id) and db.get(AlertChannel, id) find a row; 0 is no row's id.
UserFound(u) == u \in UserIds /\ mig.users[u].exists
AlertFound(a) == a \in AlertIds /\ mig.alerts[a].exists

\* The frame of a request that writes the old tables only.
OldTablesOnly == UNCHANGED <<storeVars, histVars, now, fired, missed, jobs, pass,
                             fire, synth>>

\* POST /users.  A query on a table that cleanup_old_tables has dropped,
\* and a query or insert on reminders (whose mapping names user_id and
\* alert_channel_id) when it has dropped the columns, raises and the
\* request is answered 500.
create_user(name, ntfy_topic, tz) ==
    LET status ==
            IF ~mig.users_table THEN 500
            ELSE IF \E u \in UserIds : mig.users[u].exists /\ mig.users[u].name = name
                 THEN 400
            ELSE IF tz # "" /\ ~PytzKnows(tz) THEN 422
            ELSE 200
    IN
    /\ NextUserId \in UserIds
    /\ edits' = edits + 1
    /\ resp' = Response(status, "create_user",
                        [name |-> name, ntfy_topic |-> ntfy_topic, timezone |-> tz])
    /\ mig' = IF status # 200 THEN mig
              ELSE [mig EXCEPT !.users[NextUserId] =
                       [exists |-> TRUE, name |-> name, ntfy_topic |-> ntfy_topic,
                        timezone |-> tz]]
    /\ OldTablesOnly

\* PUT /users/{id}; `has` names the fields the request sets.  The row is
\* committed before UserOut, whose timezone is a str, is made of it.
update_user(u, has, name, ntfy_topic, tz) ==
    LET row == [mig.users[u] EXCEPT
                    !.name = IF "name" \in has THEN name ELSE @,
                    !.ntfy_topic = IF "ntfy_topic" \in has THEN ntfy_topic ELSE @,
                    !.timezone = IF "timezone" \in has THEN tz ELSE @]
        refused ==
            IF ~mig.users_table THEN 500
            ELSE IF ~UserFound(u) THEN 404
            ELSE IF "name" \in has
                    /\ \E v \in UserIds \ {u} :
                           mig.users[v].exists /\ mig.users[v].name = name THEN 400
            ELSE IF "timezone" \in has /\ ~PytzKnows(tz) THEN 422
            ELSE 0
        status == IF refused # 0 THEN refused
                  ELSE IF row.timezone = SqlNull THEN 500 ELSE 200
        committed == refused = 0
    IN
    /\ edits' = edits + 1
    /\ resp' = Response(status, "update_user",
                        [id |-> u, has |-> has, name |-> name,
                         ntfy_topic |-> ntfy_topic, timezone |-> tz])
    /\ mig' = IF committed THEN [mig EXCEPT !.users[u] = row] ELSE mig
    /\ OldTablesOnly

\* DELETE /users/{id}: the delivery logs of the user's reminders, then the
\* reminders (their reminder_channels rows go by ON DELETE CASCADE), then
\* the user.
delete_user(u) ==
    LET status == IF ~mig.users_table THEN 500
                  ELSE IF ~UserFound(u) THEN 404
                  ELSE IF ~mig.columns THEN 500
                  ELSE 200
        gone == {r \in RemIds : reminders[r].exists /\ mig.user_id[r] = u}
    IN
    /\ edits' = edits + 1
    /\ resp' = Response(status, "delete_user", [id |-> u])
    /\ IF status # 200
       THEN UNCHANGED <<storeVars, histVars, mig>>
       ELSE /\ delivery_logs' = SelectSeq(delivery_logs,
                                          LAMBDA row : row.reminder_id \notin gone)
            /\ reminders' = [r \in RemIds |->
                                IF r \in gone THEN NoReminder ELSE reminders[r]]
            /\ reminder_channels' = [p \in RemIds \X ChanIds |->
                   IF p[1] \in gone THEN 0 ELSE reminder_channels[p]]
            /\ mig' = [WithoutReminders(mig, gone) EXCEPT !.users[u] = DeletedUser]
            /\ dirty' = dirty \cup gone
            /\ UNCHANGED <<channels, nextRemId>>
    /\ UNCHANGED <<now, fired, missed, jobs, pass, fire, synth>>

\* POST /reminders: Reminder(**r.model_dump()) has the column defaults for
\* timezone and enabled, and no reminder_channels row.  alert_channel_id 0
\* stands for a request without one.
create_reminder_legacy(user_id, alert_channel_id, cron) ==
    LET status ==
            IF ~mig.users_table THEN 500
            ELSE IF ~UserFound(user_id) THEN 404
            ELSE IF alert_channel_id # 0 /\ ~mig.alert_channels_table THEN 500
            ELSE IF alert_channel_id # 0 /\ ~AlertFound(alert_channel_id) THEN 404
            ELSE IF ~CroniterAccepts(cron) THEN 422
            ELSE IF ~mig.columns THEN 500
            ELSE 200
    IN
    /\ nextRemId <= MaxRem
    /\ edits' = edits + 1
    /\ resp' = Response(status, "create_reminder_legacy",
                        [user_id |-> user_id, alert_channel_id |-> alert_channel_id,
                         cron |-> cron])
    /\ IF status # 200
       THEN UNCHANGED <<storeVars, histVars, mig>>
       ELSE /\ reminders' = [reminders EXCEPT ![nextRemId] =
                    [exists |-> TRUE, enabled |-> TRUE, cron |-> cron,
                     timezone |-> DefaultTz]]
            /\ mig' = [mig EXCEPT !.user_id[nextRemId] = user_id,
                                  !.alert_channel_id[nextRemId] = alert_channel_id]
            /\ nextRemId' = nextRemId + 1
            /\ dirty' = dirty \cup {nextRemId}
            /\ UNCHANGED <<reminder_channels, channels, delivery_logs>>
    /\ UNCHANGED <<now, fired, missed, jobs, pass, fire, synth>>

\* PUT /reminders/{id}; `has` names the fields the request sets, user_id 0 a
\* null user_id.  The row is committed (line 434) before LegacyReminderOut,
\* whose user_id is an int, is made of it (line 436).
update_reminder_legacy(r, has, user_id, alert_channel_id, cron, en) ==
    LET owner == IF "user_id" \in has THEN user_id ELSE mig.user_id[r]
        refused ==
            IF ~mig.columns THEN 500
            ELSE IF ~reminders[r].exists THEN 404
            ELSE IF "user_id" \in has /\ ~mig.users_table THEN 500
            ELSE IF "user_id" \in has /\ ~UserFound(user_id) THEN 404
            ELSE IF "alert_channel_id" \in has /\ alert_channel_id # 0
                    /\ ~mig.alert_channels_table THEN 500
            ELSE IF "alert_channel_id" \in has /\ alert_channel_id # 0
                    /\ ~AlertFound(alert_channel_id) THEN 404
            ELSE IF "cron" \in has /\ ~CroniterAccepts(cron) THEN 422
            ELSE 0
        status == IF refused # 0 THEN refused ELSE IF owner = 0 THEN 500 ELSE 200
        committed == refused = 0
    IN
    /\ edits' = edits + 1
    /\ resp' = Response(status, "update_reminder_legacy",
                        [id |-> r, has |-> has, user_id |-> user_id,
                         alert_channel_id |-> alert_channel_id, cron |-> cron,
                         enabled |-> en])
    /\ IF ~committed
       THEN UNCHANGED <<storeVars, histVars, mig>>
       ELSE /\ reminders' = [reminders EXCEPT ![r] =
                    [@ EXCEPT !.enabled = IF "enabled" \in has THEN en ELSE @,
                              !.cron = IF "cron" \in has THEN cron ELSE @]]
            /\ mig' = [mig EXCEPT
                          !.user_id[r] = owner,
                          !.alert_channel_id[r] =
                              IF "alert_channel_id" \in has THEN alert_channel_id
                              ELSE @]
            /\ dirty' = dirty \cup {r}
            /\ UNCHANGED <<reminder_channels, channels, delivery_logs, nextRemId>>
    /\ UNCHANGED <<now, fired, missed, jobs, pass, fire, synth>>

\* DELETE /reminders/{id}: the delivery logs of the reminder, then
\* db.delete(reminder), which leaves its reminder_channels rows to the
\* relationship Reminder.channels (models.py 81): the flush of the commit
\* deletes one row per channel of the collection and raises StaleDataError
\* when a delete matches two rows, and the request ends, 500, with nothing
\* committed.
delete_reminder_legacy(r) ==
    LET status == IF ~mig.columns THEN 500
                  ELSE IF ~reminders[r].exists THEN 404
                  ELSE IF \E c \in ChanIds : reminder_channels[<<r, c>>] >= 2
                       THEN 500
                  ELSE 200
    IN
    /\ edits' = edits + 1
    /\ resp' = Response(status, "delete_reminder_legacy", [id |-> r])
    /\ IF status # 200
       THEN UNCHANGED <<storeVars, histVars, mig>>
       ELSE /\ reminder_channels' = WithChannels(reminder_channels, r, <<>>)
            /\ delivery_logs' = LogsNotOf(delivery_logs, r)
            /\ reminders' = [reminders EXCEPT ![r] = NoReminder]
            /\ mig' = WithoutReminders(mig, {r})
            /\ dirty' = dirty \cup {r}
            /\ UNCHANGED <<channels, nextRemId>>
    /\ UNCHANGED <<now, fired, missed, jobs, pass, fire, synth>>

\* POST /alert-channels
create_alert_channel(name, ntfy_topic) ==
    LET status ==
            IF ~mig.alert_channels_table THEN 500
            ELSE IF \E a \in AlertIds : mig.alerts[a].exists /\ mig.alerts[a].name = name
                 THEN 400
            ELSE 200
    IN
    /\ NextAlertId \in AlertIds
    /\ edits' = edits + 1
    /\ resp' = Response(status, "create_alert_channel",
                        [name |-> name, ntfy_topic |-> ntfy_topic])
    /\ mig' = IF status # 200 THEN mig
              ELSE [mig EXCEPT !.alerts[NextAlertId] =
                       [exists |-> TRUE, name |-> name, ntfy_topic |-> ntfy_topic,
                        enabled |-> TRUE]]
    /\ OldTablesOnly

\* PUT /alert-channels/{id}; `has` names the fields the request sets.
update_alert_channel(a, has, name, ntfy_topic, en) ==
    LET status ==
            IF ~mig.alert_channels_table THEN 500
            ELSE IF ~AlertFound(a) THEN 404
            ELSE IF "name" \in has
                    /\ \E b \in AlertIds \ {a} :
                           mig.alerts[b].exists /\ mig.alerts[b].name = name THEN 400
            ELSE 200
    IN
    /\ edits' = edits + 1
    /\ resp' = Response(status, "update_alert_channel",
                        [id |-> a, has |-> has, name |-> name,
                         ntfy_topic |-> ntfy_topic, enabled |-> en])
    /\ mig' = IF status # 200 THEN mig
              ELSE [mig EXCEPT !.alerts[a] =
                       [@ EXCEPT !.name = IF "name" \in has THEN name ELSE @,
                                 !.ntfy_topic = IF "ntfy_topic" \in has
                                                THEN ntfy_topic ELSE @,
                                 !.enabled = IF "enabled" \in has THEN en ELSE @]]
    /\ OldTablesOnly

\* DELETE /alert-channels/{id}
delete_alert_channel(a) ==
    LET status ==
            IF ~mig.alert_channels_table THEN 500
            ELSE IF ~AlertFound(a) THEN 404
            ELSE IF ~mig.columns THEN 500
            ELSE IF \E r \in RemIds :
                        reminders[r].exists /\ mig.alert_channel_id[r] = a THEN 400
            ELSE 200
    IN
    /\ edits' = edits + 1
    /\ resp' = Response(status, "delete_alert_channel", [id |-> a])
    /\ mig' = IF status # 200 THEN mig ELSE [mig EXCEPT !.alerts[a] = DeletedAlert]
    /\ OldTablesOnly

\* ------------------------------------------------ the API: the AI endpoints
\* A string is the sequence of its characters.
Digits == <<"0", "1", "2", "3", "4", "5", "6", "7", "8", "9">>

\* str(n) of an int
RECURSIVE Str(_)
Str(n) ==
    IF n < 0 THEN <<"-">> \o Str(0 - n)
    ELSE IF n < 10 THEN <<Digits[n + 1]>>
    ELSE Str(n \div 10) \o <<Digits[(n % 10) + 1]>>

\* sep.join(parts)
RECURSIVE Join(_, _)
Join(parts, sep) ==
    IF parts = <<>> THEN <<>>
    ELSE IF Len(parts) = 1 THEN parts[1]
    ELSE parts[1] \o sep \o Join(Tail(parts), sep)

\* The values of the parsed JSON: a key that is missing, null, an int, or a
\* list of ints.
Absent == [k |-> "absent", v |-> <<>>]
Null == [k |-> "null", v |-> <<>>]
IntVal(n) == [k |-> "int", v |-> <<n>>]
ListVal(ns) == [k |-> "list", v |-> ns]

\* dict.get(key, default): the default stands in for a missing key only.
Get(x, default) == IF x.k = "absent" THEN default ELSE x

\* What an f-string makes of a value that is null or an int.
Format(x) == IF x.k = "int" THEN Str(x.v[1]) ELSE <<"N", "o", "n", "e">>

\* f"{b} {a} {c} {d} {e}": hour and minute in each other's place
Cron5Swapped(a, b, c, d, e) == Join(<<b, a, c, d, e>>, <<" ">>)

\* f"{a} {b} {c} {d} {e}"
Cron5(a, b, c, d, e) == Join(<<a, b, c, d, e>>, <<" ">>)

StarStr == <<"*">>

\* no test of the time at all
InRangeUnchecked(lo, v, hi) == TRUE

\* lo < v < hi: the ends of the range refused
InRangeOpen(lo, v, hi) == lo < v /\ v < hi

\* lo <= v <= hi, lines 48 and 50
InRange(lo, v, hi) == lo <= v /\ v <= hi

Returned(str) == [raised |-> "", cron |-> str]
Raised(what) == [raised |-> what, cron |-> <<>>]

\* time_data.get("hour", datetime.now().hour): the hour of the clock
\* standing in for a missing hour
DefaultHourOfClock == IntVal(now % 24)

\* time_data.get("hour", 8), line 45: the default of a missing hour
DefaultHour == IntVal(8)

\* build_cron_from_structured_data(parsed_data), lines 29-89.  p.type is the
\* recurrence type, "absent" for a missing key; p.weekdays_only is the
\* truth of recurrence.get("weekdays_only").
build_cron_from_structured_data(p) ==
    LET minute == Get(p.minute, IntVal(0)).v[1]
        hour == Get(p.hour, DefaultHour).v[1]
        m == Str(minute)
        h == Str(hour)
        rec_type == IF p.type = "absent" THEN "daily" ELSE p.type
        dom == Get(p.day_of_month, IntVal(1))
        month == Get(p.month, IntVal(1))
    IN IF ~InRange(0, hour, 23) THEN Raised("Invalid hour")
       ELSE IF ~InRange(0, minute, 59) THEN Raised("Invalid minute")
       ELSE CASE rec_type = "daily" ->
                   IF p.weekdays_only
                   THEN Returned(Cron5(m, h, StarStr, StarStr, <<"1", "-", "5">>))
                   ELSE Returned(Cron5(m, h, StarStr, StarStr, StarStr))
              [] rec_type = "weekly" ->
                   IF p.day_of_week.k \in {"absent", "null"}
                   THEN Raised("Weekly recurrence requires day_of_week")
                   ELSE IF p.day_of_week.k = "list"
                   THEN Returned(Cron5(m, h, StarStr, StarStr,
                            Join([i \in DOMAIN p.day_of_week.v |->
                                      Str(p.day_of_week.v[i])], <<",">>)))
                   ELSE Returned(Cron5(m, h, StarStr, StarStr, Format(p.day_of_week)))
              [] rec_type = "monthly" ->
                   Returned(Cron5(m, h, Format(dom), StarStr, StarStr))
              [] rec_type = "yearly" ->
                   Returned(Cron5(m, h, Format(dom), Format(month), StarStr))
              [] OTHER -> Returned(Cron5(m, h, StarStr, StarStr, StarStr))

\* str.split(): the maximal runs of characters other than the blank.
RECURSIVE Split(_, _)
Split(str, word) ==
    IF str = <<>> THEN (IF word = <<>> THEN <<>> ELSE <<word>>)
    ELSE IF Head(str) = " "
         THEN (IF word = <<>> THEN <<>> ELSE <<word>>) \o Split(Tail(str), <<>>)
         ELSE Split(Tail(str), Append(word, Head(str)))

\* str.split(sep): the pieces between the separators, empty ones kept.
RECURSIVE SplitOn(_, _, _)
SplitOn(str, sep, piece) ==
    IF str = <<>> THEN <<piece>>
    ELSE IF Head(str) = sep
         THEN <<piece>> \o SplitOn(Tail(str), sep, <<>>)
         ELSE SplitOn(Tail(str), sep, Append(piece, Head(str)))

IsDigit(ch) == \E d \in 1..10 : Digits[d] = ch
DigitOf(ch) == (CHOOSE d \in 1..10 : Digits[d] = ch) - 1

IsNumber(str) == str # <<>> /\ \A i \in DOMAIN str : IsDigit(str[i])

\* int(str) of a string of digits
RECURSIVE Number(_)
Number(str) ==
    IF str = <<>> THEN 0
    ELSE 10 * Number(SubSeq(str, 1, Len(str) - 1)) + DigitOf(str[Len(str)])

Bad == [k |-> "bad", a |-> 0, b |-> 0]

\* One field of a cron string as the cron parsers read it: *, n, a-b, or a
\* list n,n,...; anything else is not a field.
ParseField(str) ==
    LET items == SplitOn(str, ",", <<>>)
        ends == SplitOn(str, "-", <<>>)
    IN IF str = StarStr THEN Star
       ELSE IF IsNumber(str) THEN Val(Number(str))
       ELSE IF Len(ends) = 2 /\ IsNumber(ends[1]) /\ IsNumber(ends[2])
            THEN [k |-> "range", a |-> Number(ends[1]), b |-> Number(ends[2])]
       ELSE IF Len(items) >= 2 /\ \A i \in DOMAIN items : IsNumber(items[i])
            THEN [k |-> "list", a |-> [i \in DOMAIN items |-> Number(items[i])],
                  b |-> 0]
       ELSE Bad

\* The fields of a cron string, as many as the string has.
ParseCron(str) == [i \in DOMAIN Split(str, <<>>) |-> ParseField(Split(str, <<>>)[i])]

\* parse_natural_language_reminder(), line 203: the structured parse is
\* handed to build_cron_from_structured_data; its ValueError ends the request.
BuildCron ==
    /\ synth.pc = "parsed"
    /\ LET got == build_cron_from_structured_data(synth.in)
       IN synth' = [synth EXCEPT !.out = got,
                                 !.pc = IF got.raised = "" THEN "built" ELSE "failed"]
    /\ UNCHANGED <<storeVars, histVars, schedVars, edits, now, resp, mig>>

\* parse_natural_language_reminder(), lines 208-213: croniter(cron_expression)
ValidateCron ==
    /\ synth.pc = "built"
    /\ synth' = [synth EXCEPT !.pc = IF CroniterAccepts(ParseCron(synth.out.cron))
                                     THEN "valid" ELSE "invalid"]
    /\ UNCHANGED <<storeVars, histVars, schedVars, edits, now, resp, mig>>

BuildMaxNow == 1  \* BuildSpec: hours the clock moves between two calls

\* The clock moves on between two calls of the builder.
BuildLater ==
    /\ synth.pc \in {"built", "failed", "valid", "invalid"}
    /\ synth.again = Raised("not called")
    /\ now < BuildMaxNow
    /\ now' = now + 1
    /\ UNCHANGED <<storeVars, histVars, schedVars, edits, synth, resp, mig>>

\* build_cron_from_structured_data called once more on the same parse, by
\* a later request or a test.
BuildAgain ==
    /\ synth.pc \in {"built", "failed", "valid", "invalid"}
    /\ synth.again = Raised("not called")
    /\ synth' = [synth EXCEPT !.again = build_cron_from_structured_data(synth.in)]
    /\ UNCHANGED <<storeVars, histVars, schedVars, edits, now, resp, mig>>

\* The days of each month in a leap year.
DaysIn == <<31, 29, 31, 30, 31, 30, 31, 31, 30, 31, 30, 31>>

\* croniter(cron).get_next(datetime), validate_and_enhance_reminder lines
\* 258-263: it raises when no day of any year matches the day and month
\* fields (a day-of-week field that is not * matches on its own).
CroniterHasNext(c) ==
    /\ Len(c) = 5
    /\ \/ c[5].k # "star"
       \/ \E m \in 1..12 : /\ FieldMatches(c[4], m)
                           /\ \E d \in 1..DaysIn[m] : FieldMatches(c[3], d)

\* str.strip() of a string of blanks and other characters
RECURSIVE Strip(_)
Strip(str) ==
    IF str = <<>> THEN <<>>
    ELSE IF Head(str) = " " THEN Strip(Tail(str))
    ELSE IF str[Len(str)] = " " THEN Strip(SubSeq(str, 1, Len(str) - 1))
    ELSE str

\* A JSON string.
StrVal(str) == [k |-> "str", v |-> str]

\* neither function ever raises
ValueErrorRaisedNever(answer, title, timed, p, tz) == FALSE

\* parse_natural_language_reminder (lines 176-240), validate_and_enhance_reminder
\* (lines 258-270) or ReminderIn (main.py 646-652) raises a ValueError.
\* answer is what the translation service did: "json" for a JSON object,
\* "text" for an answer json.loads refuses, "error" for a failed call; title
\* is the object's title ("" for none), timed whether it has the key
\* "time", p its time and recurrence, tz its timezone.
ValueErrorRaised(answer, title, timed, p, tz) ==
    \/ answer # "json"
    \/ title = <<>>
    \/ ~timed
    \/ build_cron_from_structured_data(p).raised # ""
    \/ ~CroniterAccepts(ParseCron(build_cron_from_structured_data(p).cron))
    \/ ~CroniterHasNext(ParseCron(build_cron_from_structured_data(p).cron))
    \/ Strip(title) = <<>>
    \/ tz.k = "null"

\* POST /api/reminders/ai/create, lines 607-625, up to the call of the
\* translation service (ai_service.py 106-176): the channel list is checked
\* and pytz.timezone(first_channel.timezone) is looked up, which raises for
\* a name pytz does not have (caught by line 683).  The request then waits
\* for the translation service.
create_ai_reminder(ids) ==
    LET status ==
            IF Len(ids) = 0 THEN 400
            ELSE IF \E i \in 1..Len(ids) : ~channels[ids[i]].exists THEN 404
            ELSE IF ~PytzKnows(channels[ids[1]].timezone) THEN 500
            ELSE 0
    IN
    /\ synth.pc = "none"
    /\ IF status # 0
       THEN /\ edits' = edits + 1
            /\ resp' = Response(status, "create_ai_reminder", [channel_ids |-> ids])
            /\ UNCHANGED synth
       ELSE /\ synth' = [pc |-> "asked", channel_ids |-> ids,
                         timezone |-> channels[ids[1]].timezone]
            /\ UNCHANGED <<edits, resp>>
    /\ UNCHANGED <<storeVars, histVars, now, fired, missed, jobs, pass, fire, mig>>

\* POST /api/reminders/ai/create, lines 627-684, from the answer of the
\* translation service on.  A ValueError is answered 422; the reminder and
\* one junction row per list entry are committed otherwise, which fails on
\* the foreign key of a channel deleted since the check (caught by line
\* 683) and writes nothing.
create_ai_reminder_answered(answer, title, timed, p, tz) ==
    LET ids == synth.channel_ids
        status ==
            IF ValueErrorRaised(answer, title, timed, p, tz) THEN 422
            ELSE IF ~mig.columns THEN 500
            ELSE IF \E i \in 1..Len(ids) : ~channels[ids[i]].exists THEN 500
            ELSE 200
    IN
    /\ synth.pc = "asked"
    /\ nextRemId <= MaxRem
    /\ edits' = edits + 1
    /\ synth' = NoSynth
    /\ resp' = Response(status, "create_ai_reminder",
                        [channel_ids |-> ids, answer |-> answer, title |-> title,
                         timed |-> timed, parse |-> p, timezone |-> tz])
    /\ IF status # 200
       THEN UNCHANGED <<storeVars, histVars>>
       ELSE /\ reminders' = [reminders EXCEPT ![nextRemId] =
                    [exists |-> TRUE, enabled |-> TRUE,
                     cron |-> ParseCron(build_cron_from_structured_data(p).cron),
                     timezone |-> IF tz.k = "absent" THEN synth.timezone ELSE tz.v]]
            /\ reminder_channels' = WithChannels(reminder_channels, nextRemId, ids)
            /\ nextRemId' = nextRemId + 1
            /\ dirty' = dirty \cup {nextRemId}
            /\ UNCHANGED <<channels, delivery_logs>>
    /\ UNCHANGED <<now, fired, missed, jobs, pass, fire, mig>>

\* -------------------------------------------------- migrate_to_channels.py
\* mig holds the old tables (users, alert_channels, the reminders' user_id
\* and alert_channel_id columns, the reminders whose timezone column is
\* NULL, and whether cleanup_old_tables has dropped them), where
\* migrate_data() stands, the store its run began on and the store its first
\* run left, and what quick_migrate.main() came to.
MigMaxRuns == 2

\* `x or "America/Vancouver"` of a timezone column
OrDefault(tz) == IF tz \in {"", SqlNull} THEN DefaultTz ELSE tz

\* The users as migrate_users_to_channels makes channels of them (lines
\* 162-168), and the alert channels as lines 218-224 do.
UserRows ==
    [u \in UserIds |->
        [exists |-> mig.users[u].exists, name |-> mig.users[u].name,
         ntfy_topic |-> mig.users[u].ntfy_topic,
         timezone |-> OrDefault(mig.users[u].timezone),
         enabled |-> TRUE]]

AlertRows ==
    [a \in AlertIds |->
        [exists |-> mig.alerts[a].exists, name |-> mig.alerts[a].name,
         ntfy_topic |-> mig.alerts[a].ntfy_topic, timezone |-> DefaultTz,
         enabled |-> mig.alerts[a].enabled]]

\* The loop of lines 146-178 (and 202-234) from row i on: a row whose topic a
\* channel has is mapped to that channel, any other row becomes a new
\* channel; a name that a channel has already breaks the unique constraint
\* at the flush, which rolls the step back and fails the migration.  fits
\* is false when the channels the rows need are more than ChanIds has ids.
RECURSIVE MigrateRows(_, _, _, _)
MigrateRows(chs, map, rows, i) ==
    IF i > Len(rows) THEN [ok |-> TRUE, fits |-> TRUE, chs |-> chs, map |-> map]
    ELSE IF ~rows[i].exists THEN MigrateRows(chs, map, rows, i + 1)
    ELSE LET existing == {c \in ChanIds : chs[c].exists
                                          /\ chs[c].ntfy_topic = rows[i].ntfy_topic}
             id == Cardinality({c \in ChanIds : chs[c] # NoChannel}) + 1
         IN IF existing # {}
            THEN MigrateRows(chs, [map EXCEPT ![i] = CHOOSE c \in existing : TRUE],
                             rows, i + 1)
            ELSE IF \E c \in ChanIds : chs[c].exists /\ chs[c].name = rows[i].name
            THEN [ok |-> FALSE, fits |-> TRUE, chs |-> chs, map |-> map]
            ELSE IF id \notin ChanIds
            THEN [ok |-> FALSE, fits |-> FALSE, chs |-> chs, map |-> map]
            ELSE MigrateRows(
                     [chs EXCEPT ![id] =
                         [exists |-> TRUE, enabled |-> rows[i].enabled,
                          name |-> rows[i].name, ntfy_topic |-> rows[i].ntfy_topic,
                          timezone |-> rows[i].timezone]],
                     [map EXCEPT ![i] = id], rows, i + 1)

\* The tables the migration reads and writes.
MigStore ==
    <<channels, reminder_channels, reminders, mig.users, mig.alerts, mig.user_id,
      mig.alert_channel_id, mig.tznull, mig.columns, mig.users_table,
      mig.alert_channels_table>>

\* No migration script is running.
MigIdle == mig.pc \in {"none", "idle", "done", "failed"} /\ mig.qpc = "none"

\* startup(), main.py lines 39-41: the API process starts and
\* Base.metadata.create_all makes the tables that are not there, empty; it
\* adds no column to a table that is.
startup ==
    /\ mig' = [mig EXCEPT !.users_table = TRUE, !.alert_channels_table = TRUE]
    /\ UNCHANGED <<storeVars, histVars, schedVars, edits, now, synth, resp>>

\* migrate_data(), lines 472-492: the operator answers yes to the prompts;
\* check_prerequisites (lines 91-113) ends the run when neither old table
\* is there; create_new_tables (lines 115-128) is Base.metadata.create_all,
\* which makes an old table that is missing too.  served is the number of
\* requests the API had answered when the run began.
MigStart ==
    /\ MigIdle /\ mig.pc \in {"idle", "done"}
    /\ mig.run + mig.qrun < MigMaxRuns
    /\ LET met == mig.users_table \/ mig.alert_channels_table
       IN mig' = [mig EXCEPT !.pc = IF met THEN "users" ELSE "failed",
                             !.users_table = met,
                             !.alert_channels_table = met,
                             !.run = @ + 1,
                             !.before = MigStore,
                             !.served = edits,
                             !.umap = [u \in UserIds |-> 0],
                             !.amap = [a \in AlertIds |-> 0]]
    /\ UNCHANGED <<storeVars, histVars, schedVars, edits, now, synth, resp>>

\* migrate_users_to_channels(), lines 130-184
MigUsers ==
    /\ mig.pc = "users"
    /\ LET res == MigrateRows(channels, mig.umap, UserRows, 1)
       IN /\ res.fits
          /\ IF res.ok
             THEN /\ channels' = res.chs
                  /\ mig' = [mig EXCEPT !.pc = "alerts", !.umap = res.map]
             ELSE /\ mig' = [mig EXCEPT !.pc = "failed"]
                  /\ UNCHANGED channels
    /\ UNCHANGED <<reminders, reminder_channels, delivery_logs, nextRemId, histVars,
                   schedVars, edits, now, synth, resp>>

\* migrate_alert_channels_to_channels(), lines 186-240
MigAlerts ==
    /\ mig.pc = "alerts"
    /\ LET res == MigrateRows(channels, mig.amap, AlertRows, 1)
       IN /\ res.fits
          /\ IF res.ok
             THEN /\ channels' = res.chs
                  /\ mig' = [mig EXCEPT !.pc = "links", !.amap = res.map]
             ELSE /\ mig' = [mig EXCEPT !.pc = "failed"]
                  /\ UNCHANGED channels
    /\ UNCHANGED <<reminders, reminder_channels, delivery_logs, nextRemId, histVars,
                   schedVars, edits, now, synth, resp>>

\* Lines 271-281: the channel a reminder is linked to, 0 for none.
LinkTarget(r) ==
    IF mig.alert_channel_id[r] # 0 /\ mig.amap[mig.alert_channel_id[r]] # 0
    THEN mig.amap[mig.alert_channel_id[r]]
    ELSE IF mig.user_id[r] # 0 /\ mig.umap[mig.user_id[r]] # 0
    THEN mig.umap[mig.user_id[r]]
    ELSE 0

\* lines 284-291 left out: no look for the row before it is added
LinkExistsNever(r, c) == FALSE

\* Lines 284-291: the junction row is there already.
LinkExists(r, c) == reminder_channels[<<r, c>>] > 0

\* migrate_reminder_relationships(), lines 242-308.  The query of line 251
\* raises when reminders has lost its old columns, which migrate_data
\* catches (lines 527-532): the run returns False.
MigLinks ==
    /\ mig.pc = "links"
    /\ IF ~mig.columns
       THEN /\ mig' = [mig EXCEPT !.pc = "failed"]
            /\ UNCHANGED <<reminder_channels, dirty>>
       ELSE /\ reminder_channels' =
                   [p \in RemIds \X ChanIds |->
                       IF reminders[p[1]].exists /\ LinkTarget(p[1]) = p[2]
                          /\ ~LinkExists(p[1], p[2])
                       THEN reminder_channels[p] + 1
                       ELSE reminder_channels[p]]
            /\ dirty' = RemIds
            /\ mig' = [mig EXCEPT !.pc = "timezones"]
    /\ UNCHANGED <<reminders, channels, delivery_logs, nextRemId,
                   schedVars, edits, now, synth, resp>>

\* Lines 342-346: the timezone a reminder without one is given.
TimezoneFor(r) ==
    IF mig.user_id[r] # 0 /\ mig.users[mig.user_id[r]].exists
    THEN OrDefault(mig.users[mig.user_id[r]].timezone)
    ELSE DefaultTz

\* add_timezone_to_reminders(), lines 310-358
MigTimezones ==
    /\ mig.pc = "timezones"
    /\ reminders' = [r \in RemIds |->
           IF reminders[r].exists /\ r \in mig.tznull
           THEN [reminders[r] EXCEPT !.timezone = TimezoneFor(r)]
           ELSE reminders[r]]
    /\ dirty' = RemIds
    /\ mig' = [mig EXCEPT !.pc = "finish", !.tznull = {}]
    /\ UNCHANGED <<reminder_channels, channels, delivery_logs, nextRemId,
                   schedVars, edits, now, synth, resp>>

\* The end of a run that returns True (lines 509-518).  after1 is the store
\* the first run left and quiet1 says that the API answered no request
\* while that run went on.
MigDone(m) ==
    [m EXCEPT !.pc = "done",
              !.after1 = IF m.run = 1
                         THEN <<channels, reminder_channels, reminders, m.users,
                                m.alerts, m.user_id, m.alert_channel_id, m.tznull,
                                m.columns, m.users_table, m.alert_channels_table>>
                         ELSE @,
              !.quiet1 = IF m.run = 1 THEN m.served = edits ELSE @]

\* migrate_data(), lines 503-507: the delivery logs are counted, then
\* cleanup_old_tables, lines 374-422: the old tables are kept under
\* --skip-cleanup and when the operator does not answer yes; otherwise
\* user_id and alert_channel_id are dropped from reminders and the drop is
\* committed (line 422).
MigFinish ==
    /\ mig.pc = "finish"
    /\ \E drop \in BOOLEAN :
        mig' = IF drop
               THEN [mig EXCEPT !.pc = "drop_users",
                                !.columns = FALSE,
                                !.user_id = [r \in RemIds |-> 0],
                                !.alert_channel_id = [r \in RemIds |-> 0]]
               ELSE MigDone(mig)
    /\ UNCHANGED <<storeVars, histVars, schedVars, edits, now, synth, resp>>

\* cleanup_old_tables, lines 427-432, first turn: DROP TABLE IF EXISTS users
\* CASCADE, committed.
MigDropUsers ==
    /\ mig.pc = "drop_users"
    /\ mig' = [mig EXCEPT !.pc = "drop_alert_channels",
                          !.users_table = FALSE,
                          !.users = [u \in UserIds |-> NoUser]]
    /\ UNCHANGED <<storeVars, histVars, schedVars, edits, now, synth, resp>>

\* cleanup_old_tables, lines 427-434, second turn: DROP TABLE IF EXISTS
\* alert_channels CASCADE, committed; the run returns True.
MigDropAlertChannels ==
    /\ mig.pc = "drop_alert_channels"
    /\ mig' = MigDone([mig EXCEPT !.alert_channels_table = FALSE,
                                  !.alerts = [a \in AlertIds |-> NoAlert]])
    /\ UNCHANGED <<storeVars, histVars, schedVars, edits, now, synth, resp>>

\* ------------------------------------------------------- quick_migrate.py
\* INSERT INTO channels ... SELECT ... ON CONFLICT (name) DO NOTHING, from
\* row i on: a row whose name a channel has is passed over; a row whose
\* ntfy_topic a channel has breaks the unique constraint, which fails the
\* statement.
RECURSIVE QuickInsert(_, _, _)
QuickInsert(chs, rows, i) ==
    IF i > Len(rows) THEN [ok |-> TRUE, fits |-> TRUE, chs |-> chs]
    ELSE IF ~rows[i].exists THEN QuickInsert(chs, rows, i + 1)
    ELSE LET id == Cardinality({c \in ChanIds : chs[c] # NoChannel}) + 1
         IN IF \E c \in ChanIds : chs[c].exists /\ chs[c].name = rows[i].name
            THEN QuickInsert(chs, rows, i + 1)
            ELSE IF \E c \in ChanIds : chs[c].exists
                                       /\ chs[c].ntfy_topic = rows[i].ntfy_topic
            THEN [ok |-> FALSE, fits |-> TRUE, chs |-> chs]
            ELSE IF id \notin ChanIds
            THEN [ok |-> FALSE, fits |-> FALSE, chs |-> chs]
            ELSE QuickInsert(
                     [chs EXCEPT ![id] =
                         [exists |-> TRUE, enabled |-> rows[i].enabled,
                          name |-> rows[i].name, ntfy_topic |-> rows[i].ntfy_topic,
                          timezone |-> rows[i].timezone]],
                     rows, i + 1)

\* Lines 15-24: the users as step 1 selects them, timezone as it is.
QuickUserRows ==
    [u \in UserIds |->
        [exists |-> mig.users[u].exists, name |-> mig.users[u].name,
         ntfy_topic |-> mig.users[u].ntfy_topic,
         timezone |-> mig.users[u].timezone, enabled |-> TRUE]]

\* The channel with a topic, 0 for none.
ChannelWithTopic(topic) ==
    LET found == {c \in ChanIds : channels[c].exists /\ channels[c].ntfy_topic = topic}
    IN IF found = {} THEN 0 ELSE CHOOSE c \in found : TRUE

\* Lines 76-84: the channel the first statement of step 5 joins reminder r
\* to, by the topic of its alert channel; 0 for none.
QuickAlertTarget(r) ==
    IF mig.alert_channel_id[r] # 0 /\ mig.alerts[mig.alert_channel_id[r]].exists
    THEN ChannelWithTopic(mig.alerts[mig.alert_channel_id[r]].ntfy_topic)
    ELSE 0

\* Lines 89-97: the channel the second statement of step 5 joins reminder r
\* to, by the topic of its user when its alert_channel_id is NULL; 0 for
\* none.
QuickUserTarget(r) ==
    IF mig.alert_channel_id[r] = 0 /\ mig.user_id[r] # 0
       /\ mig.users[mig.user_id[r]].exists
    THEN ChannelWithTopic(mig.users[mig.user_id[r]].ntfy_topic)
    ELSE 0

\* A statement of the script raises: the except of lines 120-123 rolls the
\* open transaction back and raises again; what the steps before committed
\* stays.
QuickRaised == [mig EXCEPT !.qpc = "none", !.qres = "failed"]

\* quick_migrate.main() is started (lines 7-11).
QuickStart ==
    /\ MigIdle
    /\ mig.run + mig.qrun < MigMaxRuns
    /\ mig' = [mig EXCEPT !.qpc = "users", !.qrun = @ + 1, !.qres = "running"]
    /\ UNCHANGED <<storeVars, histVars, schedVars, edits, now, synth, resp>>

\* Step 1, lines 13-26: the users become channels; committed.
QuickUsers ==
    /\ mig.qpc = "users"
    /\ LET one == QuickInsert(channels, QuickUserRows, 1)
       IN /\ one.fits
          /\ IF ~mig.users_table \/ ~one.ok
             THEN mig' = QuickRaised /\ UNCHANGED <<channels, dirty>>
             ELSE /\ channels' = one.chs
                  /\ dirty' = RemIds
                  /\ mig' = [mig EXCEPT !.qpc = "alert_channels"]
    /\ UNCHANGED <<reminders, reminder_channels, delivery_logs, nextRemId,
                   schedVars, edits, now, synth, resp>>

\* Step 2, lines 28-42: the alert channels become channels; committed.
QuickAlertChannels ==
    /\ mig.qpc = "alert_channels"
    /\ LET two == QuickInsert(channels, AlertRows, 1)
       IN /\ two.fits
          /\ IF ~mig.alert_channels_table \/ ~two.ok
             THEN mig' = QuickRaised /\ UNCHANGED <<channels, dirty>>
             ELSE /\ channels' = two.chs
                  /\ dirty' = RemIds
                  /\ mig' = [mig EXCEPT !.qpc = "timezones"]
    /\ UNCHANGED <<reminders, reminder_channels, delivery_logs, nextRemId,
                   schedVars, edits, now, synth, resp>>

\* Steps 3 and 4, lines 45-68: the timezone column is there; a reminder
\* whose timezone is NULL is given its user's, NULL or not; committed.
QuickTimezones ==
    /\ mig.qpc = "timezones"
    /\ LET timed == {r \in mig.tznull :
                        /\ reminders[r].exists /\ mig.user_id[r] # 0
                        /\ mig.users[mig.user_id[r]].exists
                        /\ mig.users[mig.user_id[r]].timezone # SqlNull}
       IN IF ~mig.users_table \/ ~mig.columns
          THEN mig' = QuickRaised /\ UNCHANGED <<reminders, dirty>>
          ELSE /\ reminders' = [r \in RemIds |->
                      IF r \in timed
                      THEN [reminders[r] EXCEPT
                               !.timezone = mig.users[mig.user_id[r]].timezone]
                      ELSE reminders[r]]
               /\ dirty' = RemIds
               /\ mig' = [mig EXCEPT !.qpc = "links_alert_channels",
                                     !.tznull = @ \ timed]
    /\ UNCHANGED <<channels, reminder_channels, delivery_logs, nextRemId,
                   schedVars, edits, now, synth, resp>>

\* Step 5, lines 71-85: a junction row for every reminder with an alert
\* channel, whether or not the store holds one (reminder_channels has no
\* unique constraint for ON CONFLICT to meet); committed.
QuickLinksAlertChannels ==
    /\ mig.qpc = "links_alert_channels"
    /\ IF ~mig.alert_channels_table \/ ~mig.columns
       THEN mig' = QuickRaised /\ UNCHANGED <<reminder_channels, dirty>>
       ELSE /\ reminder_channels' = [p \in RemIds \X ChanIds |->
                   IF reminders[p[1]].exists /\ QuickAlertTarget(p[1]) = p[2]
                   THEN reminder_channels[p] + 1
                   ELSE reminder_channels[p]]
            /\ dirty' = RemIds
            /\ mig' = [mig EXCEPT !.qpc = "links_users"]
    /\ UNCHANGED <<reminders, channels, delivery_logs, nextRemId,
                   schedVars, edits, now, synth, resp>>

\* Step 5, lines 87-98, and step 6, lines 100-113: a junction row for every
\* reminder without an alert channel, by its user; committed; delivery_logs
\* has its channel_id column and the script ends.
QuickLinksUsers ==
    /\ mig.qpc = "links_users"
    /\ IF ~mig.users_table \/ ~mig.columns
       THEN mig' = QuickRaised /\ UNCHANGED <<reminder_channels, dirty>>
       ELSE /\ reminder_channels' = [p \in RemIds \X ChanIds |->
                   IF reminders[p[1]].exists /\ QuickUserTarget(p[1]) = p[2]
                   THEN reminder_channels[p] + 1
                   ELSE reminder_channels[p]]
            /\ dirty' = RemIds
            /\ mig' = [mig EXCEPT !.qpc = "none", !.qres = "done"]
    /\ UNCHANGED <<reminders, channels, delivery_logs, nextRemId,
                   schedVars, edits, now, synth, resp>>

\* ---------------------------------------------------------------- the clock
\* AsyncIOScheduler() is built with APScheduler's defaults: a run is skipped when
\* it starts more than misfire_grace_time (1 s, under one tick) late.
MisfireGraceTicks == 0

Due(j) == j.next_run_time <= now

\* The event loop of the scheduler process is free: register_all() is a plain
\* function, so nothing else of the process runs while a pass is under way.
LoopFree == pass.pc = "sleep"

\* An hour boundary passes.  A free event loop wakes for a due job at once, so
\* the clock moves on only when no job is due, or the loop is held by a pass.
TickTo(limit) ==
    /\ now < limit
    /\ ~LoopFree \/ ~\E j \in jobs : Due(j)
    /\ now' = now + 1
    /\ UNCHANGED <<storeVars, histVars, schedVars, edits, synth, resp, mig>>

\* ----------------------------------------------- the scheduler: register_all
\* scheduler.add_job(..., id=f"rem-{id}", replace_existing=True)
AddJob(js, job) == {j \in js : j.id # job.id} \cup {job}

\* db.query(Reminder).all(): line 75 without its filter on enabled.
RECURSIVE EnabledRemindersUnfiltered(_)
EnabledRemindersUnfiltered(r) ==
    IF r > MaxRem THEN <<>>
    ELSE (IF reminders[r].exists
          THEN <<[id |-> r, cron |-> reminders[r].cron,
                  timezone |-> reminders[r].timezone]>>
          ELSE <<>>) \o EnabledRemindersUnfiltered(r + 1)

\* db.query(Reminder).filter(Reminder.enabled.is_(True)).all(), from id r up
RECURSIVE EnabledReminders(_)
EnabledReminders(r) ==
    IF r > MaxRem THEN <<>>
    ELSE (IF reminders[r].exists /\ reminders[r].enabled
          THEN <<[id |-> r, cron |-> reminders[r].cron,
                  timezone |-> reminders[r].timezone]>>
          ELSE <<>>) \o EnabledReminders(r + 1)

\* What of a job identifies its trigger.
Trigger(j) == [id |-> j.id, cron |-> j.cron, tz |-> j.tz]
Registry == {Trigger(j) : j \in jobs}

\* register_all() without line 74: the pass opens on the registry as it is.
PassBeginKeeping ==
    /\ pass.pc = "sleep"
    /\ pass' = [pass EXCEPT !.pc = "query", !.rows = <<>>, !.read = <<>>,
                            !.clean = FALSE, !.prev = jobs]
    /\ UNCHANGED <<storeVars, histVars, edits, now, jobs, fire, fired, missed, synth, resp, mig>>

\* register_all(), line 74: the pass opens by emptying the registry.
PassBegin ==
    /\ pass.pc = "sleep"
    /\ jobs' = {}
    /\ pass' = [pass EXCEPT !.pc = "query", !.rows = <<>>, !.read = <<>>,
                            !.clean = FALSE, !.prev = jobs]
    /\ UNCHANGED <<storeVars, histVars, edits, now, fire, fired, missed, synth, resp, mig>>

\* register_all(), line 75, the store answering.
PassQuery ==
    /\ pass.pc = "query"
    /\ mig.columns
    /\ pass' = [pass EXCEPT !.pc = "register", !.rows = EnabledReminders(1),
                            !.read = EnabledReminders(1), !.clean = (dirty = {})]
    /\ dirty' = {}
    /\ UNCHANGED <<storeVars, edits, now, jobs, fire, fired, missed, synth, resp, mig>>

\* register_all(), line 75, the store not answering: the query raises, the
\* finally closes the session, and nothing catches the exception in
\* register_all(), watcher() or main(): asyncio.run() cancels the running
\* fire() tasks and the process ends.
PassQueryFails ==
    /\ pass.pc = "query"
    /\ pass' = [pass EXCEPT !.pc = "dead"]
    /\ fire' = [r \in RemIds |-> IdleFire]
    /\ UNCHANGED <<storeVars, histVars, edits, now, jobs, fired, missed, synth, resp, mig>>

\* register_all(), lines 76-91, as an incremental diff: a row whose trigger
\* the registry held when the pass began is taken as registered already.
PassRegisterIncremental ==
    /\ pass.pc = "register" /\ pass.rows # <<>>
    /\ LET row == Head(pass.rows)
           zone == GetTz(row.timezone)
           held == \E j \in pass.prev :
                       Trigger(j) = [id |-> row.id, cron |-> row.cron, tz |-> zone]
       IN /\ jobs' = IF FromCrontabOk(row.cron) /\ ~held
                      THEN AddJob(jobs, [id |-> row.id, args |-> row.id,
                                         cron |-> row.cron, tz |-> zone,
                                         next_run_time |->
                                             NextFireAfter(row.cron, zone, now)])
                      ELSE jobs
          /\ pass' = [pass EXCEPT !.rows = Tail(pass.rows)]
    /\ UNCHANGED <<storeVars, histVars, edits, now, fire, fired, missed, synth, resp, mig>>

\* register_all(), lines 76-91, without the inner try: a cron that does not
\* compile raises out of register_all(), watcher() and main().
PassRegisterUncaught ==
    /\ pass.pc = "register" /\ pass.rows # <<>>
    /\ LET row == Head(pass.rows)
           zone == GetTz(row.timezone)
       IN IF FromCrontabOk(row.cron)
          THEN /\ jobs' = AddJob(jobs, [id |-> row.id, args |-> row.id,
                                        cron |-> row.cron, tz |-> zone,
                                        next_run_time |->
                                            NextFireAfter(row.cron, zone, now)])
               /\ pass' = [pass EXCEPT !.rows = Tail(pass.rows)]
               /\ UNCHANGED fire
          ELSE /\ pass' = [pass EXCEPT !.pc = "dead"]
               /\ fire' = [r \in RemIds |-> IdleFire]
               /\ UNCHANGED jobs
    /\ UNCHANGED <<storeVars, histVars, edits, now, fired, missed, synth, resp, mig>>

\* register_all(), lines 76-91: one turn of the loop over the rows read.
PassRegister ==
    /\ pass.pc = "register" /\ pass.rows # <<>>
    /\ LET row == Head(pass.rows)
           zone == GetTz(row.timezone)
       IN /\ jobs' = IF FromCrontabOk(row.cron)
                      THEN AddJob(jobs, [id |-> row.id, args |-> row.id,
                                         cron |-> row.cron, tz |-> zone,
                                         next_run_time |->
                                             NextFireAfter(row.cron, zone, now)])
                      ELSE jobs
          /\ pass' = [pass EXCEPT !.rows = Tail(pass.rows)]
    /\ UNCHANGED <<storeVars, histVars, edits, now, fire, fired, missed, synth, resp, mig>>

\* register_all(), lines 92-93, and watcher() going to sleep.
PassEnd ==
    /\ pass.pc = "register" /\ pass.rows = <<>>
    /\ pass' = [pass EXCEPT !.pc = "sleep", !.n = IF @ < 2 THEN @ + 1 ELSE 2]
    /\ UNCHANGED <<storeVars, histVars, edits, now, jobs, fire, fired, missed, synth, resp, mig>>

\* ------------------------------------------ the scheduler: a trigger elapses
\* APScheduler's wakeup for one due job: it coalesces the run times missed,
\* skips the run when it is past the grace time or when the job's previous
\* fire() is still running (max_instances = 1), and moves next_run_time on.
ProcessJob ==
    /\ LoopFree
    /\ \E j \in jobs :
        /\ Due(j)
        /\ LET run == LastFireUpTo(j.cron, j.tz, j.next_run_time, now)
               r == j.args
               passed == {<<r, t>> : t \in {u \in j.next_run_time..now :
                                              IsFireInstant(j.cron, j.tz, u)}}
               runs == now - run <= MisfireGraceTicks /\ fire[r].pc = "idle"
           IN /\ jobs' = (jobs \ {j}) \cup
                    {[j EXCEPT !.next_run_time = NextFireAfter(j.cron, j.tz, run)]}
              /\ IF runs
                 THEN /\ fire' = [fire EXCEPT ![r] = [IdleFire EXCEPT !.pc = "fetch"]]
                      /\ fired' = fired \cup {<<r, run>>}
                      /\ missed' = missed \cup (passed \ {<<r, run>>})
                 ELSE /\ missed' = missed \cup passed
                      /\ UNCHANGED <<fire, fired>>
    /\ UNCHANGED <<storeVars, histVars, edits, now, pass, synth, resp, mig>>

\* ------------------------------------------------------ the scheduler: fire
\* What the relay may do with one POST.
SendResults == {"ok", "http_error", "network_error"}

\* send_ntfy(): client.post() raises on a transport failure; the response's
\* status is not looked at.
SendNtfyRaises(res) == res = "network_error"

\* fire(), line 23, without the test of the enabled flag.
ReminderLiveUnflagged(r) == reminders[r].exists

\* fire(), line 23: the reminder is there and enabled.
ReminderLive(r) == reminders[r].exists /\ reminders[r].enabled

\* fire(), line 33, without the filter on ch.enabled.
EnabledChannelsUnfiltered(r) == ChannelsOf(r)

\* fire(), line 33: [ch for ch in reminder.channels if ch.enabled]
EnabledChannels(r) == {c \in ChannelsOf(r) : channels[c].enabled}

\* fire(), lines 20-36: the re-fetch and the choice of the channels.
FireFetch ==
    /\ LoopFree
    /\ \E r \in RemIds :
        /\ fire[r].pc = "fetch"
        /\ \E up \in BOOLEAN : fire' = [fire EXCEPT ![r] =
              IF ~up \/ ~mig.columns
              THEN [@ EXCEPT !.pc = "done", !.result = "failed"]
              ELSE LET got == [@ EXCEPT
                          !.seen = IF ~reminders[r].exists THEN "missing"
                                   ELSE IF ~reminders[r].enabled THEN "disabled"
                                   ELSE "enabled",
                          !.assoc = {c \in ChanIds : reminder_channels[<<r, c>>] > 0},
                          !.live = {c \in ChanIds :
                                      channels[c].exists /\ channels[c].enabled}]
                   IN IF ~ReminderLive(r)
                      THEN [got EXCEPT !.pc = "done", !.result = "skipped"]
                      ELSE IF ChannelsOf(r) = {}
                      THEN [got EXCEPT !.pc = "done", !.result = "no_channels"]
                      ELSE IF EnabledChannels(r) = {}
                      THEN [got EXCEPT !.pc = "done", !.result = "no_enabled_channels"]
                      ELSE [got EXCEPT !.pc = "loop", !.todo = EnabledChannels(r)]]
    /\ UNCHANGED <<storeVars, histVars, edits, now, jobs, pass, fired, missed, synth, resp, mig>>

\* fire(), lines 41-59: the try of one turn of the loop: the rows the turn
\* adds to the session for channel c when the relay answers res.
Delivered(r, c, res) ==
    IF SendNtfyRaises(res)
    THEN <<[reminder_id |-> r, channel_id |-> c, status |-> "error", detail |-> res]>>
    ELSE <<[reminder_id |-> r, channel_id |-> c, status |-> "sent", detail |-> ""]>>

\* The rows of a session, channel by channel from c up.
RECURSIVE SessionRows(_, _)
SessionRows(out, c) ==
    IF c > MaxChan THEN <<>> ELSE out[c] \o SessionRows(out, c + 1)

\* fire(), lines 40-59, without the inner try: a send_ntfy() that raises
\* leaves the loop for the outer handler, nothing is added for the channel.
FireDeliverUncaught ==
    /\ LoopFree
    /\ \E r \in RemIds :
        /\ fire[r].pc = "post"
        /\ \E res \in SendResults :
             LET c == fire[r].wait
             IN fire' = [fire EXCEPT ![r] =
                 IF SendNtfyRaises(res)
                 THEN [@ EXCEPT !.calls[c] = Append(@, res), !.wait = 0,
                                !.pc = "done", !.result = "rolled_back"]
                 ELSE [@ EXCEPT !.todo = @ \ {c}, !.wait = 0, !.pc = "loop",
                                !.calls[c] = Append(@, res),
                                !.outcomes[c] = @ \o Delivered(r, c, res)]]
    /\ UNCHANGED <<storeVars, histVars, edits, now, jobs, pass, fired, missed, synth, resp, mig>>

\* fire(), lines 40-42: a turn of the loop begins: send_ntfy is called for
\* one channel and the coroutine waits for it, leaving the event loop to the
\* other callbacks of the process.
FirePost ==
    /\ LoopFree
    /\ \E r \in RemIds :
        /\ fire[r].pc = "loop"
        /\ \E c \in fire[r].todo :
             fire' = [fire EXCEPT ![r] = [@ EXCEPT !.pc = "post", !.wait = c]]
    /\ UNCHANGED <<storeVars, histVars, edits, now, jobs, pass, fired, missed, synth, resp, mig>>

\* fire(), lines 42-59: send_ntfy returns or raises, with one answer of the
\* relay, and the turn adds its row to the session.
FireDeliver ==
    /\ LoopFree
    /\ \E r \in RemIds :
        /\ fire[r].pc = "post"
        /\ \E res \in SendResults :
             LET c == fire[r].wait
             IN fire' = [fire EXCEPT ![r] = [@ EXCEPT
                 !.todo = @ \ {c}, !.wait = 0, !.pc = "loop",
                 !.calls[c] = Append(@, res),
                 !.outcomes[c] = @ \o Delivered(r, c, res)]]
    /\ UNCHANGED <<storeVars, histVars, edits, now, jobs, pass, fired, missed, synth, resp, mig>>

\* fire() keeping only the latest outcomes of a reminder: the commit
\* replaces the rows the reminder had.
FireCommitReplacing ==
    /\ LoopFree
    /\ \E r \in RemIds :
        /\ fire[r].pc = "loop" /\ fire[r].todo = {}
        /\ \E up \in BOOLEAN : IF up
           THEN /\ delivery_logs' = LogsNotOf(delivery_logs, r)
                                        \o SessionRows(fire[r].outcomes, 1)
                /\ fire' = [fire EXCEPT ![r] = [@ EXCEPT !.pc = "done",
                                                         !.result = "committed"]]
           ELSE /\ fire' = [fire EXCEPT ![r] = [@ EXCEPT !.pc = "done",
                                                         !.result = "rolled_back"]]
                /\ UNCHANGED delivery_logs
    /\ UNCHANGED <<reminders, reminder_channels, channels, nextRemId, histVars,
                   edits, now, jobs, pass, fired, missed, synth, resp, mig>>

\* fire() committing each outcome as it is added: a store that stops
\* answering at line 61 has the rows of the channels before the last already.
FireCommitPerRow ==
    /\ LoopFree
    /\ \E r \in RemIds :
        /\ fire[r].pc = "loop" /\ fire[r].todo = {}
        /\ \E up \in BOOLEAN : IF up
           THEN /\ delivery_logs' = delivery_logs \o SessionRows(fire[r].outcomes, 1)
                /\ fire' = [fire EXCEPT ![r] = [@ EXCEPT !.pc = "done",
                                                         !.result = "committed"]]
           ELSE /\ delivery_logs' = delivery_logs \o
                        SubSeq(SessionRows(fire[r].outcomes, 1), 1,
                               Len(SessionRows(fire[r].outcomes, 1)) - 1)
                /\ fire' = [fire EXCEPT ![r] = [@ EXCEPT !.pc = "done",
                                                         !.result = "rolled_back"]]
    /\ UNCHANGED <<reminders, reminder_channels, channels, nextRemId, histVars,
                   edits, now, jobs, pass, fired, missed, synth, resp, mig>>

\* fire(), lines 61-66: db.commit() of the outcomes added, or the rollback
\* when the commit raises.
FireCommit ==
    /\ LoopFree
    /\ \E r \in RemIds :
        /\ fire[r].pc = "loop" /\ fire[r].todo = {}
        /\ \E up \in BOOLEAN : IF up
           THEN /\ delivery_logs' = delivery_logs \o SessionRows(fire[r].outcomes, 1)
                /\ fire' = [fire EXCEPT ![r] = [@ EXCEPT !.pc = "done",
                                                         !.result = "committed"]]
           ELSE /\ fire' = [fire EXCEPT ![r] = [@ EXCEPT !.pc = "done",
                                                         !.result = "rolled_back"]]
                /\ UNCHANGED delivery_logs
    /\ UNCHANGED <<reminders, reminder_channels, channels, nextRemId, histVars,
                   edits, now, jobs, pass, fired, missed, synth, resp, mig>>

\* fire(), lines 67-68: the session is closed and the coroutine returns.
FireClose ==
    /\ LoopFree
    /\ \E r \in RemIds :
        /\ fire[r].pc = "done"
        /\ fire' = [fire EXCEPT ![r] = IdleFire]
    /\ UNCHANGED <<storeVars, histVars, edits, now, jobs, pass, fired, missed, synth, resp, mig>>

Scheduler ==
    \/ PassBegin \/ PassQuery \/ PassQueryFails \/ PassRegister \/ PassEnd
    \/ ProcessJob
    \/ FireFetch \/ FirePost \/ FireDeliver \/ FireCommit \/ FireClose

\* ---------------------------------------------------- Spec: reconciliation
\* The scheduler against a store whose reminders the API creates, re-times,
\* disables, enables and deletes, and which may stop answering.
RecCrons == {CronEvery2h, CronEvery3h, CronDow7, CronMin99}

RecCreate ==
    /\ edits < MaxEdits
    /\ \E cron \in RecCrons, tz \in Tzs : CreateReminder(cron, tz, <<1>>)

RecUpdate ==
    /\ edits < MaxEdits
    /\ \E r \in RemIds :
        \/ \E en \in BOOLEAN : UpdateReminder(r, {"enabled"}, <<>>, CronHourly, "UTC", en)
        \/ \E cron \in RecCrons : UpdateReminder(r, {"cron"}, <<>>, cron, "UTC", TRUE)
        \/ \E tz \in Tzs : UpdateReminder(r, {"timezone"}, <<>>, CronHourly, tz, TRUE)

RecDelete == edits < MaxEdits /\ \E r \in RemIds : DeleteReminder(r)

Tick == TickTo(MaxTime)

Next ==
    \/ RecCreate \/ RecUpdate \/ RecDelete
    \/ Tick
    \/ Scheduler

Init == \E seeded \in BOOLEAN : InitWith(seeded, CronEvery2h, "UTC", <<1>>)

Spec == Init /\ [][Next]_vars

\* -------------------------------------------------------- FireSpec: fan-out
\* The scheduler against a store whose reminders and channels the API
\* creates, disables, enables, re-targets and deletes.
ChannelLists == {<<>>} \cup {<<c>> : c \in ChanIds}
                \cup {<<p[1], p[2]>> : p \in {q \in ChanIds \X ChanIds : q[1] < q[2]}}

FanCreate ==
    /\ edits < FireMaxEdits /\ nextRemId <= FireMaxRem
    /\ \E ids \in ChannelLists : CreateReminder(CronHourly, "UTC", ids)

FanUpdate ==
    /\ edits < FireMaxEdits
    /\ \E r \in RemIds :
        \/ \E en \in BOOLEAN : UpdateReminder(r, {"enabled"}, <<>>, CronHourly, "UTC", en)
        \/ \E ids \in ChannelLists :
               UpdateReminder(r, {"channel_ids"}, ids, CronHourly, "UTC", TRUE)

FanDelete == edits < FireMaxEdits /\ \E r \in RemIds : DeleteReminder(r)

FanChannel ==
    /\ edits < FireMaxEdits
    /\ \E c \in ChanIds, en \in BOOLEAN : UpdateChannel(c, en)

FanTick == TickTo(FireMaxTime)

FireNext ==
    \/ FanCreate \/ FanUpdate \/ FanDelete \/ FanChannel
    \/ FanTick
    \/ Scheduler

FireInit ==
    \E seeded \in BOOLEAN, ids \in {<<1>>, <<1, 2>>} :
        InitWith(seeded, CronHourly, "UTC", ids)

FireSpec == FireInit /\ [][FireNext]_vars


\* ------------------------------------------------- FrameSpec: store writes
\* The scheduler over several fires of one hourly reminder, against a store
\* whose channels the API disables and enables and whose reminder it deletes.
FrameMaxTime == 2  \* FrameSpec: the clock stops after this many ticks

FrameTick == TickTo(FrameMaxTime)

FrameNext ==
    \/ FanChannel \/ FanDelete
    \/ FrameTick
    \/ Scheduler

FrameInit == InitWith(TRUE, CronHourly, "UTC", <<1>>)

FrameSpec == FrameInit /\ [][FrameNext]_vars

\* ------------------------------------- DstSpec: across a daylight transition
\* The scheduler over the days around Vancouver's two daylight transitions,
\* with one reminder "0 8 * * *" in America/Vancouver.
DstSpan == 30  \* DstSpec: hours of clock before and after a transition

DstTick ==
    TickTo(IF now <= DstStart + DstSpan THEN DstStart + DstSpan ELSE DstEnd + DstSpan)

DstNext == DstTick \/ Scheduler

DstInit ==
    /\ reminders = [r \in RemIds |->
            IF r = 1
            THEN [exists |-> TRUE, enabled |-> TRUE, cron |-> CronDaily8,
                  timezone |-> "America/Vancouver"]
            ELSE NoReminder]
    /\ reminder_channels = [p \in RemIds \X ChanIds |-> IF p = <<1, 1>> THEN 1 ELSE 0]
    /\ channels = [c \in ChanIds |-> SeedChannel(c)]
    /\ delivery_logs = <<>>
    /\ nextRemId = 2
    /\ edits = 0
    /\ now \in {DstStart - DstSpan, DstEnd - DstSpan}
    /\ jobs = {}
    /\ pass = IdlePass
    /\ fire = [r \in RemIds |-> IdleFire]
    /\ dirty = {}
    /\ fired = {}
    /\ missed = {}
    /\ synth = NoSynth
    /\ resp = NoResp
    /\ mig = NoMig

DstSpec == DstInit /\ [][DstNext]_vars

\* ------------------------------------------- WeekSpec: a weekly reminder
\* The scheduler over a Sunday and the days after it, the store holding the
\* synthesized weekly cron "0 14 * * 0" in UTC.
WeekStart == 3 * 24       \* 1970-01-04 00:00 UTC, a Sunday
WeekSpan == 48            \* hours of clock from WeekStart on

WeekTick == TickTo(WeekStart + WeekSpan)

WeekNext == WeekTick \/ Scheduler

WeekInit ==
    /\ reminders = [r \in RemIds |->
            IF r = 1
            THEN [exists |-> TRUE, enabled |-> TRUE, cron |-> CronSunday14,
                  timezone |-> "UTC"]
            ELSE NoReminder]
    /\ reminder_channels = [p \in RemIds \X ChanIds |-> IF p = <<1, 1>> THEN 1 ELSE 0]
    /\ channels = [c \in ChanIds |-> SeedChannel(c)]
    /\ delivery_logs = <<>>
    /\ nextRemId = 2
    /\ edits = 0
    /\ now = WeekStart
    /\ jobs = {}
    /\ pass = IdlePass
    /\ fire = [r \in RemIds |-> IdleFire]
    /\ dirty = {}
    /\ fired = {}
    /\ missed = {}
    /\ synth = NoSynth
    /\ resp = NoResp
    /\ mig = NoMig

WeekSpec == WeekInit /\ [][WeekNext]_vars

\* ------------------------------------------------ BuildSpec: the cron builder
\* build_cron_from_structured_data over the parses the translation
\* collaborator may return, followed by the croniter check of its result.
Hours == {Absent} \cup {IntVal(h) : h \in {-1, 0, 8, 9, 20, 23, 24, 25}}
Minutes == {Absent} \cup {IntVal(m) : m \in {-1, 0, 15, 30, 59, 60, 75}}
Types == {"absent", "null", "daily", "weekly", "monthly", "yearly", "once", "hourly"}
DaysOfWeek == {Absent, Null, IntVal(0), IntVal(7), IntVal(9),
               ListVal(<<>>), ListVal(<<1, 3, 5>>)}
DaysOfMonth == {Absent, Null, IntVal(12), IntVal(15), IntVal(32)}
Months == {Absent, Null, IntVal(10), IntVal(13)}

Parses ==
    [hour : Hours, minute : Minutes, type : Types, weekdays_only : BOOLEAN,
     day_of_week : DaysOfWeek, day_of_month : DaysOfMonth, month : Months]

BuildInit ==
    /\ reminders = [r \in RemIds |-> NoReminder]
    /\ reminder_channels = [p \in RemIds \X ChanIds |-> 0]
    /\ channels = [c \in ChanIds |-> SeedChannel(c)]
    /\ delivery_logs = <<>>
    /\ nextRemId = 1
    /\ edits = 0
    /\ now = 0
    /\ jobs = {}
    /\ pass = IdlePass
    /\ fire = [r \in RemIds |-> IdleFire]
    /\ dirty = {}
    /\ fired = {}
    /\ missed = {}
    /\ resp = NoResp
    /\ mig = NoMig
    /\ \E p \in Parses :
           synth = [pc |-> "parsed", in |-> p, out |-> Raised("not called"),
                    again |-> Raised("not called")]

BuildNext == BuildCron \/ ValidateCron \/ BuildLater \/ BuildAgain

BuildSpec == BuildInit /\ [][BuildNext]_vars

\* ------------------------------------------------- ApiSpec: the API alone
\* The reminder and channel endpoints served one request after another,
\* with requests the handlers accept and requests they refuse.
ApiMaxEdits == 2  \* ApiSpec: requests served

NoSuchTz == "Mars/Olympus"

Range(seq) == {seq[i] : i \in DOMAIN seq}

ApiCreateReminder ==
    /\ edits < ApiMaxEdits
    /\ \E cron \in {CronHourly, CronMin99}, tz \in {"UTC", "", NoSuchTz},
          ids \in ChannelLists :
           CreateReminder(cron, tz, ids)

ApiUpdateReminder ==
    /\ edits < ApiMaxEdits
    /\ \E r \in RemIds, has \in SUBSET {"channel_ids", "cron", "timezone", "enabled"} :
       \E ids \in IF "channel_ids" \in has THEN ChannelLists ELSE {<<>>},
          cron \in IF "cron" \in has THEN {CronEvery2h, CronMin99} ELSE {CronHourly},
          tz \in IF "timezone" \in has THEN {"UTC", NoSuchTz} ELSE {""},
          en \in IF "enabled" \in has THEN BOOLEAN ELSE {TRUE} :
           UpdateReminder(r, has, ids, cron, tz, en)

ApiCreateChannel ==
    /\ edits < ApiMaxEdits
    /\ \E name \in Range(Names), ntfy_topic \in Range(Topics),
          tz \in {DefaultTz, NoSuchTz} :
           create_channel(name, ntfy_topic, tz)

ApiUpdateChannel ==
    /\ edits < ApiMaxEdits
    /\ \E c \in ChanIds, has \in SUBSET {"name", "ntfy_topic", "timezone", "enabled"} :
       \E name \in IF "name" \in has THEN Range(Names) ELSE {""},
          ntfy_topic \in IF "ntfy_topic" \in has THEN Range(Topics) ELSE {""},
          tz \in IF "timezone" \in has THEN {"UTC", NoSuchTz} ELSE {""},
          en \in IF "enabled" \in has THEN BOOLEAN ELSE {TRUE} :
           update_channel(c, has, name, ntfy_topic, tz, en)

\* POST /reminders and PUT /reminders/{id}
ApiLegacyCreate ==
    /\ edits < ApiMaxEdits
    /\ \E u \in UserIds, a \in 0..MaxAlerts, cron \in {CronHourly, CronMin99} :
           create_reminder_legacy(u, a, cron)

ApiLegacyUpdate ==
    /\ edits < ApiMaxEdits
    /\ \E r \in RemIds, has \in SUBSET {"user_id", "cron", "enabled"} :
       \E u \in IF "user_id" \in has THEN UserIds ELSE {0},
          cron \in IF "cron" \in has THEN {CronEvery2h, CronMin99} ELSE {CronHourly},
          en \in IF "enabled" \in has THEN {FALSE} ELSE {TRUE} :
           update_reminder_legacy(r, has, u, 0, cron, en)

ApiNext ==
    \/ ApiCreateReminder \/ ApiUpdateReminder \/ ApiCreateChannel \/ ApiUpdateChannel
    \/ ApiLegacyCreate \/ ApiLegacyUpdate

\* The store holds the first n channels and, if it holds any, one reminder
\* sent to channel 1.
ApiInit ==
    \E n \in 0..MaxChan :
        /\ reminders = [r \in RemIds |->
                IF n > 0 /\ r = 1
                THEN [exists |-> TRUE, enabled |-> TRUE, cron |-> CronHourly,
                      timezone |-> "UTC"]
                ELSE NoReminder]
        /\ reminder_channels = [p \in RemIds \X ChanIds |->
                IF n > 0 /\ p = <<1, 1>> THEN 1 ELSE 0]
        /\ channels = [c \in ChanIds |-> IF c <= n THEN SeedChannel(c) ELSE NoChannel]
        /\ delivery_logs = <<>>
        /\ nextRemId = IF n > 0 THEN 2 ELSE 1
        /\ edits = 0
        /\ now = 0
        /\ jobs = {}
        /\ pass = IdlePass
        /\ fire = [r \in RemIds |-> IdleFire]
        /\ dirty = {}
        /\ fired = {}
        /\ missed = {}
        /\ synth = NoSynth
        /\ resp = NoResp
        /\ mig = SeedMig

ApiSpec == ApiInit /\ [][ApiNext]_vars

\* ------------------------------------------------ AiSpec: the AI endpoint
\* POST /api/reminders/ai/create over parses the builder takes and parses it
\* refuses, beside the plain reminder endpoints.
AiMaxEdits == 2  \* AiSpec: requests served

\* The parse of an answer without the key "time".
AiUntimed ==
    [hour |-> Absent, minute |-> Absent, type |-> "daily", weekdays_only |-> FALSE,
     day_of_week |-> Absent, day_of_month |-> Absent, month |-> Absent]

\* "every day at 8"
AiDaily8 == [AiUntimed EXCEPT !.hour = IntVal(8), !.minute = IntVal(0)]

AiParses ==
    {AiDaily8, [AiDaily8 EXCEPT !.hour = IntVal(25)],
     [AiDaily8 EXCEPT !.minute = IntVal(75)]}
    \cup {[AiDaily8 EXCEPT !.type = "weekly", !.day_of_week = d] :
              d \in {Absent, IntVal(0), ListVal(<<>>)}}
    \cup {[AiDaily8 EXCEPT !.type = "monthly", !.day_of_month = d] :
              d \in {IntVal(31), IntVal(32)}}
    \cup {[AiDaily8 EXCEPT !.type = "yearly", !.day_of_month = IntVal(31),
                           !.month = m] : m \in {IntVal(2), IntVal(3)}}

AiTitles == {<<>>, <<" ">>, <<"p", "i", "l", "l", "s">>}

AiCreate == edits < AiMaxEdits /\ \E ids \in ChannelLists : create_ai_reminder(ids)

AiAnswer ==
    /\ edits < AiMaxEdits
    /\ \/ \E answer \in {"text", "error"} :
            create_ai_reminder_answered(answer, <<>>, FALSE, AiUntimed, Absent)
       \/ \E title \in AiTitles, tz \in {Absent, Null, StrVal("UTC")} :
            \/ create_ai_reminder_answered("json", title, FALSE, AiUntimed, tz)
            \/ \E p \in AiParses :
                   create_ai_reminder_answered("json", title, TRUE, p, tz)

AiDelete == edits < AiMaxEdits /\ \E r \in RemIds : DeleteReminder(r)

\* POST /api/channels with the timezone "", which it takes, and DELETE
\* /api/channels/{id}.
AiChannel ==
    /\ edits < AiMaxEdits
    /\ \/ create_channel(Names[3], Topics[3], "")
       \/ \E c \in ChanIds : delete_channel(c)

AiNext == AiCreate \/ AiAnswer \/ AiDelete \/ AiChannel

AiSpec == ApiInit /\ [][AiNext]_vars

\* ------------------------------------- ZoneSpec: a zone the API did not check
\* The scheduler against a store in which POST /api/reminders/ai/create
\* persists the timezone the translation collaborator named.
ZoneCreate == edits < MaxEdits /\ \E ids \in ChannelLists : create_ai_reminder(ids)

ZoneAnswer ==
    /\ edits < MaxEdits
    /\ \E tz \in {StrVal("UTC"), StrVal(NoSuchTz)} :
           create_ai_reminder_answered("json", <<"p", "i", "l", "l", "s">>, TRUE,
               [hour |-> IntVal(8), minute |-> IntVal(0), type |-> "daily",
                weekdays_only |-> FALSE, day_of_week |-> Absent,
                day_of_month |-> Absent, month |-> Absent],
               tz)

ZoneNext == ZoneCreate \/ ZoneAnswer \/ Tick \/ Scheduler

ZoneSpec == ApiInit /\ [][ZoneNext]_vars

\* --------------------------- RefSpec: requests that create, re-target, delete
\* The reminder and channel endpoints against a store of MaxChan channels,
\* one reminder sent to channel 1 and the outcome of one delivery of it.
RefMaxEdits == 3

\* The channel_ids of a request: list[int], which may name a channel twice.
RefLists == ChannelLists \cup {<<c, c>> : c \in ChanIds}

RefCreateReminder ==
    /\ edits < RefMaxEdits
    /\ \E ids \in RefLists : CreateReminder(CronHourly, "UTC", ids)

RefUpdateReminder ==
    /\ edits < RefMaxEdits
    /\ \E r \in RemIds, ids \in RefLists :
           UpdateReminder(r, {"channel_ids"}, ids, CronHourly, "", TRUE)

RefDeleteReminder == edits < RefMaxEdits /\ \E r \in RemIds : DeleteReminder(r)

RefCreateChannel ==
    /\ edits < RefMaxEdits
    /\ \E i \in {1, 3} : create_channel(Names[i], Topics[i], DefaultTz)

RefDeleteChannel == edits < RefMaxEdits /\ \E c \in ChanIds : delete_channel(c)

\* The old endpoints: POST, PUT and DELETE /reminders and DELETE /users.
RefLegacyCreate ==
    /\ edits < RefMaxEdits
    /\ \E u \in UserIds : create_reminder_legacy(u, 0, CronHourly)

RefLegacyUpdate ==
    /\ edits < RefMaxEdits
    /\ \E r \in RemIds, en \in BOOLEAN :
           update_reminder_legacy(r, {"enabled"}, 0, 0, CronHourly, en)

RefLegacyDelete == edits < RefMaxEdits /\ \E r \in RemIds : delete_reminder_legacy(r)

RefDeleteUser == edits < RefMaxEdits /\ \E u \in UserIds : delete_user(u)

RefNext ==
    \/ RefCreateReminder \/ RefUpdateReminder \/ RefDeleteReminder
    \/ RefCreateChannel \/ RefDeleteChannel
    \/ RefLegacyCreate \/ RefLegacyUpdate \/ RefLegacyDelete \/ RefDeleteUser

RefInit ==
    \E n \in 1..MaxChan, owner \in {0, 1} :
        /\ reminders = [r \in RemIds |->
                IF r = 1
                THEN [exists |-> TRUE, enabled |-> TRUE, cron |-> CronHourly,
                      timezone |-> "UTC"]
                ELSE NoReminder]
        /\ reminder_channels = [p \in RemIds \X ChanIds |->
                IF p = <<1, 1>> THEN 1 ELSE 0]
        /\ channels = [c \in ChanIds |-> IF c <= n THEN SeedChannel(c) ELSE NoChannel]
        /\ delivery_logs = Delivered(1, 1, "ok")
        /\ nextRemId = 2
        /\ edits = 0
        /\ now = 0
        /\ jobs = {}
        /\ pass = IdlePass
        /\ fire = [r \in RemIds |-> IdleFire]
        /\ dirty = {}
        /\ fired = {}
        /\ missed = {}
        /\ synth = NoSynth
        /\ resp = NoResp
        /\ mig = [SeedMig EXCEPT !.user_id[1] = owner]

RefSpec == RefInit /\ [][RefNext]_vars

\* ------------------------------------------------ MigSpec: the migration
MigMaxEdits == 1  \* MigSpec: requests served

\* The two migration scripts, run up to twice together, over old tables of
\* one or two users and at most one alert channel, with the API serving a
\* request on the old tables between or during the runs; the new tables
\* are empty before the first run.  A second reminder, when there is one,
\* is user 1's and has no alert channel.
MigInit ==
    /\ \E u2 \in BOOLEAN, tz1 \in {SqlNull, "UTC"}, topic2 \in {Topics[1], Topics[2]},
          a \in BOOLEAN, aname \in {Names[1], Names[3]},
          atopic \in {Topics[1], Topics[2]},
          r2 \in BOOLEAN, uid1 \in 0..MaxUsers, uid2 \in 0..1,
          aid1 \in 0..MaxAlerts, null \in SUBSET RemIds :
        /\ uid1 = 2 => u2
        /\ aid1 # 0 => a
        /\ ~a => aname = Names[1] /\ atopic = Topics[1]
        /\ ~u2 => topic2 = Topics[1]
        /\ ~r2 => uid2 = 0 /\ 2 \notin null
        /\ r2 => uid2 = 1 /\ 1 \notin null
        /\ reminders = [r \in RemIds |->
                IF r = 1 \/ (r = 2 /\ r2)
                THEN [exists |-> TRUE, enabled |-> TRUE, cron |-> CronHourly,
                      timezone |-> IF r \in null THEN "" ELSE "UTC"]
                ELSE NoReminder]
        /\ nextRemId = IF r2 THEN 3 ELSE 2
        /\ mig = [pc |-> "idle", run |-> 0, columns |-> TRUE, users_table |-> TRUE,
                  alert_channels_table |-> TRUE,
                  users |-> [u \in UserIds |->
                      IF u = 1 \/ (u = 2 /\ u2)
                      THEN [exists |-> TRUE, name |-> Names[u],
                            ntfy_topic |-> IF u = 1 THEN Topics[1] ELSE topic2,
                            timezone |-> IF u = 1 THEN tz1 ELSE "UTC"]
                      ELSE NoUser],
                  alerts |-> [x \in AlertIds |->
                      IF a /\ x = 1
                      THEN [exists |-> TRUE, name |-> aname, ntfy_topic |-> atopic,
                            enabled |-> TRUE]
                      ELSE NoAlert],
                  user_id |-> [r \in RemIds |-> IF r = 1 THEN uid1
                                                ELSE IF r = 2 THEN uid2 ELSE 0],
                  alert_channel_id |-> [r \in RemIds |-> IF r = 1 THEN aid1 ELSE 0],
                  tznull |-> null \cap {1, 2},
                  umap |-> [u \in UserIds |-> 0],
                  amap |-> [x \in AlertIds |-> 0],
                  before |-> <<>>, after1 |-> <<>>, served |-> 0, quiet1 |-> FALSE,
                  qpc |-> "none", qrun |-> 0, qres |-> "none"]
    /\ reminder_channels = [p \in RemIds \X ChanIds |-> 0]
    /\ channels = [c \in ChanIds |-> NoChannel]
    /\ delivery_logs = <<>>
    /\ edits = 0
    /\ now = 0
    /\ jobs = {}
    /\ pass = IdlePass
    /\ fire = [r \in RemIds |-> IdleFire]
    /\ dirty = {}
    /\ fired = {}
    /\ missed = {}
    /\ synth = NoSynth
    /\ resp = NoResp

\* The requests on the old tables, served whether or not a script runs.
MigUserRequest ==
    /\ edits < MigMaxEdits
    /\ \/ create_user(Names[2], Topics[1], "")
       \/ \E u \in UserIds :
            \/ update_user(u, {"ntfy_topic"}, "", Topics[2], "")
            \/ update_user(u, {"timezone"}, "", "", DefaultTz)
            \/ delete_user(u)

MigAlertRequest ==
    /\ edits < MigMaxEdits
    /\ \/ create_alert_channel(Names[3], Topics[2])
       \/ \E x \in AlertIds :
            \/ \E en \in BOOLEAN : update_alert_channel(x, {"enabled"}, "", "", en)
            \/ delete_alert_channel(x)

MigReminderRequest ==
    /\ edits < MigMaxEdits
    /\ \/ create_reminder_legacy(1, 0, CronHourly)
       \/ DeleteReminder(1)

MigNext ==
    \/ MigStart \/ MigUsers \/ MigAlerts \/ MigLinks \/ MigTimezones \/ MigFinish
    \/ MigDropUsers \/ MigDropAlertChannels
    \/ QuickStart \/ QuickUsers \/ QuickAlertChannels \/ QuickTimezones
    \/ QuickLinksAlertChannels \/ QuickLinksUsers
    \/ MigUserRequest \/ MigAlertRequest \/ MigReminderRequest
    \/ startup

MigSpec == MigInit /\ [][MigNext]_vars

\* ------------------------------------------------------ properties of fire
\* The channels a fire of r had to deliver to: those the store showed
\* associated with r and enabled when the fire re-fetched the reminder.
Targets(r) == fire[r].assoc \cap fire[r].live

\* The fire of r is past its fan-out.
FanOutOver(r) == fire[r].pc = "done" /\ fire[r].result # "failed"

\* The delivery_logs rows of reminder r, in order.
LogsOf(r) == SelectSeq(delivery_logs, LAMBDA row : row.reminder_id = r)

\* C1: in a fire of a reminder that the re-fetch found present and enabled,
\* send_ntfy is called at most once per channel and only for channels that
\* are associated with the reminder and enabled at the re-fetch; once the
\* fan-out is over every such channel has had exactly one call; each call
\* that has returned has exactly one outcome, carrying the reminder's and the
\* channel's id; and the commit writes exactly these outcomes to
\* delivery_logs.
C1_FanOutExact ==
    \A r \in RemIds : fire[r].seen = "enabled" =>
        /\ fire[r].pc = "post" =>
            fire[r].wait \in Targets(r) /\ fire[r].calls[fire[r].wait] = <<>>
        /\ \A c \in ChanIds :
            /\ Len(fire[r].calls[c]) <= 1
            /\ Len(fire[r].calls[c]) = 1 => c \in Targets(r)
            /\ Len(fire[r].outcomes[c]) = Len(fire[r].calls[c])
            /\ \A i \in 1..Len(fire[r].outcomes[c]) :
                /\ fire[r].outcomes[c][i].reminder_id = r
                /\ fire[r].outcomes[c][i].channel_id = c
        /\ FanOutOver(r) => \A c \in Targets(r) : Len(fire[r].calls[c]) = 1
        /\ fire[r].result = "committed" /\ reminders[r].exists =>
            LET rows == SessionRows(fire[r].outcomes, 1)
                logs == LogsOf(r)
            IN /\ Len(rows) = Cardinality(Targets(r))
               /\ Len(logs) >= Len(rows)
               /\ SubSeq(logs, Len(logs) - Len(rows) + 1, Len(logs)) = rows

\* C1, its case: a committed fire of a reminder with channels [1 enabled,
\* 2 disabled]: one call, to channel 1, and one outcome.
C1_Witness ==
    \E r \in RemIds :
        /\ fire[r].seen = "enabled" /\ fire[r].result = "committed"
        /\ fire[r].assoc = {1, 2} /\ fire[r].live = {1}
        /\ Len(fire[r].calls[1]) = 1 /\ Len(fire[r].calls[2]) = 0
        /\ Len(SessionRows(fire[r].outcomes, 1)) = 1

\* C2: a send_ntfy call that raises is answered, at its channel, by exactly
\* one "error" outcome holding the exception's text, and a call that returns
\* by one "sent" outcome; the channel is not called again; the fan-out goes
\* on to the channels still to do and ends in the commit, so that once it is
\* over every enabled channel of the reminder has its outcome.
C2_FailureIsolated ==
    \A r \in RemIds : \A c \in ChanIds :
        Len(fire[r].calls[c]) >= 1 =>
            /\ Len(fire[r].calls[c]) = 1
            /\ c \notin fire[r].todo
            /\ Len(fire[r].outcomes[c]) = 1
            /\ fire[r].outcomes[c][1].status =
                   (IF SendNtfyRaises(fire[r].calls[c][1]) THEN "error" ELSE "sent")
            /\ SendNtfyRaises(fire[r].calls[c][1]) =>
                   fire[r].outcomes[c][1].detail = fire[r].calls[c][1]
            /\ fire[r].pc \in {"loop", "post", "done"}
            /\ fire[r].pc \in {"loop", "post"} =>
                   fire[r].todo = {d \in Targets(r) : Len(fire[r].calls[d]) = 0}
            /\ fire[r].pc = "done" =>
                   /\ fire[r].result \in {"committed", "rolled_back"}
                   /\ \A d \in Targets(r) : Len(fire[r].outcomes[d]) = 1

\* C2, its case: a committed fire whose call to one channel raised and whose
\* call to the other returned: delivery_logs ends with both outcomes.
C2_Witness ==
    \E r \in RemIds :
        /\ fire[r].result = "committed"
        /\ \E c, d \in ChanIds :
            /\ fire[r].outcomes[c] # <<>> /\ fire[r].outcomes[c][1].status = "error"
            /\ fire[r].outcomes[d] # <<>> /\ fire[r].outcomes[d][1].status = "sent"
        /\ Len(delivery_logs) >= 2
        /\ {delivery_logs[i].status : i \in DOMAIN delivery_logs} = {"sent", "error"}

\* C5: a fire whose re-fetch found the reminder deleted or disabled makes
\* no send_ntfy call, adds no outcome, and is over at once.
C5_StaleFireNoOp ==
    \A r \in RemIds : fire[r].seen \in {"missing", "disabled"} =>
        /\ \A c \in ChanIds : fire[r].calls[c] = <<>> /\ fire[r].outcomes[c] = <<>>
        /\ fire[r].todo = {}
        /\ fire[r].pc = "done" /\ fire[r].result = "skipped"

\* C5, its case: the trigger of a reminder elapsed and its fire started, and
\* the re-fetch found the reminder disabled since the trigger was registered.
C5_Witness ==
    \E r \in RemIds :
        /\ fire[r].seen = "disabled" /\ fire[r].pc = "done"
        /\ <<r, now>> \in fired
        /\ delivery_logs = <<>>

\* The registry holds a job for reminder r.
Scheduled(r) == \E j \in jobs : j.id = r

\* A pass has completed and no reminder or channel changed since it read.
Settled == pass.pc = "sleep" /\ pass.n >= 1 /\ dirty = {}

\* C10 as stated: once a pass has read the store as it is, a reminder with
\* no associated channel, or with none of them enabled, has no job in the
\* registry.
C10_NoTriggerWithoutDestination ==
    Settled => \A r \in RemIds :
        reminders[r].exists /\ EnabledChannels(r) = {} => ~Scheduled(r)

\* C10 amended: register_all() schedules every enabled reminder whose cron
\* compiles, whatever its channels; it is the fire of a reminder with no
\* associated channel, or with none of them enabled, that does nothing: no
\* send_ntfy call and no outcome.
C10_NoDeliveryWithoutDestination ==
    /\ Settled => \A r \in RemIds :
           ReminderLive(r) /\ FromCrontabOk(reminders[r].cron) => Scheduled(r)
    /\ \A r \in RemIds : fire[r].seen = "enabled" /\ Targets(r) = {} =>
           /\ \A c \in ChanIds : fire[r].calls[c] = <<>> /\ fire[r].outcomes[c] = <<>>
           /\ fire[r].pc = "done"
           /\ fire[r].result \in {"no_channels", "no_enabled_channels"}

\* C10 amended, its case: a reminder all of whose channels are disabled kept
\* its job, the job ran, and the fire made no call.
C10_Witness ==
    \E r \in RemIds :
        /\ Scheduled(r) /\ <<r, now>> \in fired
        /\ fire[r].seen = "enabled" /\ fire[r].pc = "done"
        /\ fire[r].assoc # {} /\ Targets(r) = {}
        /\ delivery_logs = <<>>


\* ---------------------------------------------- properties of register_all
\* The trigger register_all() builds from a row it read.
TriggerOf(row) == [id |-> row.id, cron |-> row.cron, tz |-> GetTz(row.timezone)]

\* The rows of the running or last pass that the loop of lines 76-91 is
\* through with.
Handled == SubSeq(pass.read, 1, Len(pass.read) - Len(pass.rows))

\* C3: a fire instant that passes while register_all() runs is not lost.
\* Taken after a pass, for a job the registry held when the pass began whose
\* reminder is unchanged and registered again with the same trigger: if the
\* run time the old job was waiting for has passed and the new job is not
\* due, then the fire of that run time was started.
C3_NoFireInstantDropped ==
    LoopFree /\ pass.n >= 1 =>
        \A old \in pass.prev :
            (/\ ReminderLive(old.id) /\ old.id \notin dirty
             /\ \E j \in jobs : Trigger(j) = Trigger(old) /\ ~Due(j)
             /\ old.next_run_time <= now)
            => <<old.id, old.next_run_time>> \in fired

\* C4: a query of line 75 that raises ends the pass only: watcher() is
\* still running, to call register_all() again after its sleep.
C4_LoopSurvivesReadFailure == pass.pc # "dead"

\* C6: no two jobs of the registry have the same id; and when a pass has
\* completed the registry holds exactly the triggers built from the rows the
\* pass read (the enabled reminders) whose cron compiles, each with the
\* row's cron and timezone, and what the pass read is the store's enabled
\* reminders unless the store changed since.
C6_RegistryIsProjection ==
    /\ \A j1, j2 \in jobs : j1.id = j2.id => j1 = j2
    /\ pass.pc = "sleep" /\ pass.n >= 1 =>
        /\ Registry = {TriggerOf(pass.read[i]) :
                          i \in {k \in DOMAIN pass.read : FromCrontabOk(pass.read[k].cron)}}
        /\ Cardinality(jobs) = Cardinality(Registry)
        /\ dirty = {} => pass.read = EnabledReminders(1)

\* C6, its case: a completed pass that read two enabled reminders, one of
\* them re-timed since it was first registered, left exactly their two jobs.
C6_Witness ==
    /\ pass.pc = "sleep" /\ pass.n = 2 /\ Len(pass.read) = 2
    /\ Cardinality(jobs) = 2
    /\ \E j \in jobs : \E old \in pass.prev : j.id = old.id /\ j.cron # old.cron

\* C7: when a pass completes and the store did not change between the read
\* of the pass before it and its own, the registry holds the same triggers
\* (ids, crons, timezones) as the pass before it left.
C7_PassIdempotent ==
    pass.pc = "sleep" /\ pass.n = 2 /\ pass.clean =>
        Registry = {Trigger(j) : j \in pass.prev}

\* C7, its case: two passes in a row over an unchanged store holding an
\* enabled reminder, the second leaving the same one job.
C7_Witness ==
    /\ pass.pc = "sleep" /\ pass.n = 2 /\ pass.clean
    /\ pass.prev # {} /\ Cardinality(jobs) = Cardinality(pass.prev)

\* The jobs a step adds or replaces have their next run time computed from
\* the clock of that step.
FreshlyTimed ==
    \A j \in jobs' \ jobs : j.next_run_time = NextFireAfter(j.cron, j.tz, now)

\* What a completed pass leaves for the reminders unchanged since its read:
\* no job for a disabled one, a job with the reminder's cron and timezone for
\* an enabled one whose cron compiles.
DisabledOutEnabledIn ==
    pass.pc = "sleep" /\ pass.n >= 1 =>
        \A r \in RemIds \ dirty :
            /\ reminders[r].exists /\ ~reminders[r].enabled => ~\E j \in jobs : j.id = r
            /\ ReminderLive(r) /\ FromCrontabOk(reminders[r].cron) =>
                  \E j \in jobs : Trigger(j) = TriggerOf([id |-> r,
                                         cron |-> reminders[r].cron,
                                         timezone |-> reminders[r].timezone])

\* The registry a pass leaves at the step that completes it (lines 92-93),
\* against the store at that step: no job for a reminder the store holds
\* disabled, and a job for an enabled one whose cron compiles and that had
\* its job when the pass began (so it is not one created since).
CompletedPassAgrees ==
    pass.pc # "sleep" /\ pass'.pc = "sleep" =>
        \A r \in RemIds :
            /\ reminders'[r].exists /\ ~reminders'[r].enabled =>
                  ~\E j \in jobs' : j.id = r
            /\ (/\ reminders'[r].exists /\ reminders'[r].enabled
                /\ FromCrontabOk(reminders'[r].cron)
                /\ \E j \in pass'.prev : j.id = r) =>
                  \E j \in jobs' : j.id = r

\* What a completed pass leaves for the reminders changed since its read:
\* a job for those it read with a cron that compiles, and for no other.
ChangedSinceAsRead ==
    pass.pc = "sleep" /\ pass.n >= 1 =>
        \A r \in dirty :
            (\E j \in jobs : j.id = r)
                <=> \E i \in DOMAIN pass.read :
                        pass.read[i].id = r /\ FromCrontabOk(pass.read[i].cron)

\* C8 as stated: every pass that completes leaves no job for a reminder
\* that is disabled in the store when it completes, and a job for every
\* enabled one that was registered before (and whose cron compiles), also
\* when the reminder was disabled or enabled again after the pass had read
\* the store; and every job a pass registers gets the first fire instant
\* after the clock of the pass.
C8_FirstPassCompleting == [][CompletedPassAgrees]_vars /\ [][FreshlyTimed]_vars

\* C8, amended: after every pass that read the store (line 75) since a
\* reminder was last changed, the registry has no job for it if it is
\* disabled and has its job if it is enabled (and its cron compiles); a pass
\* that had read the store before the change completes with what it read.
\* Every job a pass registers gets the first fire instant after the clock of
\* the pass.
C8_DisableEnable ==
    [](DisabledOutEnabledIn /\ ChangedSinceAsRead) /\ [][FreshlyTimed]_vars

\* C8, its case: a reminder disabled and enabled again, after the clock has
\* moved on, registered by the next pass with a run time ahead of the clock.
C8_Witness ==
    /\ pass.pc = "sleep" /\ pass.n = 2 /\ edits = 2 /\ dirty = {} /\ now >= 1
    /\ ReminderLive(1) /\ nextRemId = 2 /\ reminders[1].cron = CronEvery2h
    /\ pass.prev = {}
    /\ \E j \in jobs : j.id = 1 /\ j.next_run_time > now

\* C9: a row whose cron does not compile costs its own job only: of the
\* rows the loop is through with, exactly those whose cron compiles have
\* their job, and a pass with rows left to register is still running.
C9_BadCronIsolated ==
    /\ \A i \in DOMAIN Handled :
           FromCrontabOk(Handled[i].cron) <=> TriggerOf(Handled[i]) \in Registry
    /\ pass.rows # <<>> => pass.pc = "register"
    /\ pass.pc = "sleep" /\ pass.n >= 1 => Handled = pass.read

\* C9, its case: a completed pass that read a reminder whose cron does not
\* compile ahead of one whose cron does, and registered the second.
C9_Witness ==
    /\ pass.pc = "sleep" /\ Len(pass.read) = 2
    /\ ~FromCrontabOk(pass.read[1].cron) /\ FromCrontabOk(pass.read[2].cron)
    /\ {j.id : j \in jobs} = {pass.read[2].id}

\* ----------------------------------------- properties of the job processing
\* The run time the registry would hand to fire() for job j now.
RunOf(j) == LastFireUpTo(j.cron, j.tz, j.next_run_time, now)

\* A step starts fire(r).
Starts(r) == fire[r].pc = "idle" /\ fire'[r].pc = "fetch"

\* C11: no fire instant of a reminder has fire() started for it twice:
\* whenever a step starts fire(r) for the run time of r's due job, no fire
\* of r was started for that run time before, whatever passes removed and
\* registered the job again in between.
C11_AtMostOneFirePerInstant ==
    [][\A r \in RemIds : Starts(r) =>
          \A j \in jobs : j.id = r /\ Due(j) => <<r, RunOf(j)>> \notin fired]_vars

\* C11, its case: the fire of the running hour was started, and a pass that
\* began after it has emptied the registry and registered the job again.
C11_Witness ==
    \E r \in RemIds :
        /\ <<r, now>> \in fired
        /\ pass.pc = "sleep"
        /\ \E old \in pass.prev : old.id = r /\ old.next_run_time > now
        /\ \E j \in jobs : j.id = r /\ j.next_run_time > now

\* ------------------------------------------- properties of the persistence
\* The rows a step appends to delivery_logs.
Appended == SubSeq(delivery_logs', Len(delivery_logs) + 1, Len(delivery_logs'))

\* A step adds rows to delivery_logs.
Appends ==
    /\ Len(delivery_logs') > Len(delivery_logs)
    /\ SubSeq(delivery_logs', 1, Len(delivery_logs)) = delivery_logs

\* C12: delivery_logs gets rows of a fire in one step only, the commit
\* after the fan-out, which adds one row for every channel the fire had to
\* deliver to; a commit that raises adds none, ends the fire as rolled back
\* and makes no call; and a fire that is over makes no further call.
C12_OutcomesPersistedAsUnit ==
    [][/\ Len(delivery_logs') > Len(delivery_logs) =>
            /\ Appends
            /\ \E r \in RemIds :
                /\ fire[r].pc = "loop" /\ fire[r].todo = {}
                /\ fire'[r].pc = "done" /\ fire'[r].result = "committed"
                /\ Len(Appended) = Cardinality(Targets(r))
                /\ {Appended[i] : i \in DOMAIN Appended} =
                       {fire[r].outcomes[c][1] : c \in Targets(r)}
       /\ \A r \in RemIds :
            /\ fire[r].pc \in {"loop", "post"} /\ fire'[r].pc \in {"loop", "post"} =>
                   Len(LogsOf(r)') <= Len(LogsOf(r))
            /\ fire[r].pc \in {"loop", "post"} /\ fire'[r].result = "rolled_back" =>
                   /\ delivery_logs' = delivery_logs
                   /\ fire'[r].pc = "done"
                   /\ fire'[r].calls = fire[r].calls
            /\ fire[r].pc = "done" =>
                   fire'[r].calls = fire[r].calls \/ fire'[r] = IdleFire]_vars

\* C12, its case: a fire called two channels, its commit raised, and none
\* of its outcomes is in delivery_logs.
C12_Witness ==
    \E r \in RemIds :
        /\ fire[r].pc = "done" /\ fire[r].result = "rolled_back"
        /\ \A c \in {1, 2} : Len(fire[r].calls[c]) = 1 /\ Len(fire[r].outcomes[c]) = 1
        /\ delivery_logs = <<>>

\* C13: send_ntfy fails on a network failure and on a non-2xx answer alike,
\* so every call the relay did not answer with a 2xx has an "error"
\* outcome, never a "sent" one.
C13_Non2xxIsError ==
    \A r \in RemIds : \A c \in ChanIds :
        \A i \in DOMAIN fire[r].outcomes[c] :
            fire[r].calls[c][i] # "ok" => fire[r].outcomes[c][i].status = "error"

\* C14: a step of the scheduler process (any step that serves no API
\* request) leaves the reminders, the channels and the junction rows as
\* they are, and leaves every row delivery_logs holds in place: it can only
\* append rows.
C14_CoreOnlyAppendsOutcomes ==
    [][edits' = edits =>
          /\ reminders' = reminders
          /\ channels' = channels
          /\ reminder_channels' = reminder_channels
          /\ nextRemId' = nextRemId
          /\ Len(delivery_logs') >= Len(delivery_logs)
          /\ SubSeq(delivery_logs', 1, Len(delivery_logs)) = delivery_logs]_vars

\* C14, its case: a second fire of a reminder committed its outcome to a
\* store that held the outcome of the first.
C14_Witness ==
    /\ {<<1, 1>>, <<1, 2>>} \subseteq fired
    /\ fire[1].pc = "done" /\ fire[1].result = "committed"
    /\ Len(delivery_logs) = 2

\* ------------------------------------------------ properties of the builder
Built == synth.pc \in {"built", "failed", "valid", "invalid"}

\* A parse the mapping table speaks of: hour and minute given and in range,
\* the recurrence fields ints, lists of ints, or left out, and a weekly
\* recurrence that names its day.
InTable(p) ==
    /\ p.hour.k = "int" /\ p.hour.v[1] \in 0..23
    /\ p.minute.k = "int" /\ p.minute.v[1] \in 0..59
    /\ p.type # "null"
    /\ p.day_of_week.k \in {"absent", "int", "list"}
    /\ p.day_of_month.k \in {"absent", "int"}
    /\ p.month.k \in {"absent", "int"}
    /\ p.type = "weekly" => p.day_of_week.k # "absent"

Blank == <<" ">>

\* The row of the mapping table for p; missing_as says which kind a parse
\* without a kind is read as.
MappingTable(p, missing_as) ==
    LET m == Str(p.minute.v[1])
        h == Str(p.hour.v[1])
        kind == IF p.type = "absent" THEN missing_as ELSE p.type
        dow == IF p.day_of_week.k = "list"
               THEN Join([i \in DOMAIN p.day_of_week.v |-> Str(p.day_of_week.v[i])],
                         <<",">>)
               ELSE Str(p.day_of_week.v[1])
        dom == IF p.day_of_month.k = "absent" THEN <<"1">>
               ELSE Str(p.day_of_month.v[1])
        month == IF p.month.k = "absent" THEN <<"1">> ELSE Str(p.month.v[1])
        at == m \o Blank \o h \o Blank
    IN CASE kind = "daily" /\ p.weekdays_only -> at \o <<"*", " ", "*", " ", "1", "-", "5">>
         [] kind = "weekly" -> at \o <<"*", " ", "*", " ">> \o dow
         [] kind = "monthly" -> at \o dom \o <<" ", "*", " ", "*">>
         [] kind = "yearly" -> at \o dom \o Blank \o month \o <<" ", "*">>
         [] OTHER -> at \o <<"*", " ", "*", " ", "*">>

Example2015Daily ==
    [hour |-> IntVal(20), minute |-> IntVal(15), type |-> "daily",
     weekdays_only |-> FALSE, day_of_week |-> Absent, day_of_month |-> Absent,
     month |-> Absent]

Example0800Yearly ==
    [hour |-> IntVal(8), minute |-> IntVal(0), type |-> "yearly",
     weekdays_only |-> FALSE, day_of_week |-> Absent, day_of_month |-> IntVal(12),
     month |-> IntVal(10)]

ExamplesHold ==
    /\ Built /\ synth.in = Example2015Daily =>
           synth.out.cron = <<"1", "5", " ", "2", "0", " ", "*", " ", "*", " ", "*">>
    /\ Built /\ synth.in = Example0800Yearly =>
           synth.out.cron = <<"0", " ", "8", " ", "1", "2", " ", "1", "0", " ", "*">>

\* C15 as stated: for every hour in 0..23, minute in 0..59 and recurrence the
\* builder returns the string of the mapping table, where a missing kind, like
\* once and unknown kinds, gives `m h * * *`.
C15_TableMissingKindPlain ==
    Built /\ InTable(synth.in) =>
        synth.out = Returned(MappingTable(synth.in, "once"))

\* C15, amended: for every hour in 0..23, minute in 0..59 and recurrence the
\* builder returns the string of the mapping table, where a missing kind is
\* read as daily, `m h * * 1-5` when weekdays-only and `m h * * *` otherwise;
\* once and unknown kinds give `m h * * *`.
C15_TableMissingKindDaily ==
    /\ Built /\ InTable(synth.in) =>
           synth.out = Returned(MappingTable(synth.in, "daily"))
    /\ ExamplesHold

C15_Witness ==
    /\ Built
    /\ InTable(synth.in)
    /\ synth.in.type = "absent"
    /\ synth.in.weekdays_only
    /\ synth.out.cron = <<"1", "5", " ", "2", "0", " ", "*", " ", "*", " ", "1", "-", "5">>

TimeOutOfRange(p) ==
    \/ p.hour.k = "int" /\ p.hour.v[1] \notin 0..23
    \/ p.minute.k = "int" /\ p.minute.v[1] \notin 0..59

\* C16: whenever the hour is outside 0..23 or the minute outside 0..59 the
\* builder fails with a validation error and returns no cron string, for
\* every recurrence kind and whatever the other recurrence fields are.
C16_BadTimeRejected ==
    Built /\ TimeOutOfRange(synth.in) =>
        /\ synth.pc = "failed"
        /\ synth.out.raised \in {"Invalid hour", "Invalid minute"}
        /\ synth.out.cron = <<>>

C16_Witness ==
    /\ Built
    /\ synth.in.type = "yearly"
    /\ synth.in.hour = IntVal(8)
    /\ synth.in.minute = IntVal(75)
    /\ synth.in.day_of_month = IntVal(12)
    /\ synth.out = Raised("Invalid minute")

\* C17: every string the builder returns, for any structured input on which
\* it returns at all (day-of-week, day-of-month or month absent, null or out
\* of range, or an empty day-of-week list), is a 5-field cron expression
\* that the croniter validity check accepts.
C17_BuiltIsValidCron ==
    Built /\ synth.out.raised = "" =>
        /\ Len(ParseCron(synth.out.cron)) = 5
        /\ CroniterAccepts(ParseCron(synth.out.cron))
        /\ synth.pc # "invalid"

CalledAgain == Built /\ synth.again # Raised("not called")

WeeklyWithoutDay(p) ==
    p.type = "weekly" /\ p.day_of_week.k \in {"absent", "null"}

Served(ops) == edits' # edits /\ resp'.op \in ops

\* C19: a create-reminder or update-reminder request that is rejected
\* (invalid cron, invalid timezone name, unknown channel id, empty channel
\* list on create) causes no partial state change: the reminders' fields and
\* their channel associations in the committed store are the same after the
\* request as before it, also when the update carried a valid new channel
\* list together with the invalid cron or timezone.  The old endpoints
\* POST /reminders and PUT /reminders/{id} are create and update requests
\* too.
C19_RejectionChangesNothing ==
    [][Served({"create_reminder", "update_reminder", "create_reminder_legacy",
               "update_reminder_legacy"})
          /\ resp'.status \in {400, 404, 422} =>
           /\ reminders' = reminders
           /\ reminder_channels' = reminder_channels
           /\ nextRemId' = nextRemId
           /\ mig' = mig]_vars

C19_Witness ==
    /\ resp.op = "update_reminder"
    /\ resp.status = 422
    /\ resp.args.id = 1
    /\ resp.args.has = {"channel_ids", "cron"}
    /\ resp.args.channel_ids = <<2>>
    /\ resp.args.cron = CronMin99
    /\ channels[2].exists
    /\ reminder_channels[<<1, 1>>] = 1
    /\ reminder_channels[<<1, 2>>] = 0
    /\ reminders[1].cron = CronHourly

Existing == {c \in ChanIds : channels[c].exists}

NamesAndTopicsUnique ==
    \A c, d \in Existing :
        c # d => /\ channels[c].name # channels[d].name
                 /\ channels[c].ntfy_topic # channels[d].ntfy_topic

\* The request just served names a name or a topic that a channel other
\* than `own` holds.
Duplicates(own) ==
    \E d \in Existing \ {own} :
        \/ (resp'.op = "create_channel" \/ "name" \in resp'.args.has)
              /\ channels[d].name = resp'.args.name
        \/ (resp'.op = "create_channel" \/ "ntfy_topic" \in resp'.args.has)
              /\ channels[d].ntfy_topic = resp'.args.ntfy_topic

DuplicateRejected ==
    /\ Served({"create_channel"}) /\ Duplicates(0) =>
           resp'.status = 400 /\ UNCHANGED storeVars
    /\ Served({"update_channel"}) /\ resp'.args.id \in Existing
          /\ Duplicates(resp'.args.id) =>
           resp'.status = 400 /\ UNCHANGED storeVars

\* An update whose name and topic, where it sets them, are the channel's own.
OwnKept ==
    LET a == resp'.args
    IN Served({"update_channel"}) /\ a.id \in Existing
          /\ ("name" \in a.has => a.name = channels[a.id].name)
          /\ ("ntfy_topic" \in a.has => a.ntfy_topic = channels[a.id].ntfy_topic)
          /\ ("timezone" \in a.has => PytzKnows(a.timezone))
       => /\ resp'.status = 200
          /\ "enabled" \in a.has => channels'[a.id].enabled = a.enabled
          /\ "timezone" \in a.has => channels'[a.id].timezone = a.timezone
          /\ channels'[a.id].name = channels[a.id].name
          /\ channels'[a.id].ntfy_topic = channels[a.id].ntfy_topic

\* C20: after any sequence of create-channel and update-channel requests no
\* two distinct channels have the same name and no two the same delivery
\* topic; a request that would create such a duplicate is rejected and
\* changes nothing, while an update that keeps a channel's own name or topic
\* is accepted.
C20_NamesAndTopicsUnique ==
    /\ []NamesAndTopicsUnique
    /\ [][DuplicateRejected /\ OwnKept]_vars

C20_Witness ==
    /\ resp.op = "update_channel"
    /\ resp.status = 200
    /\ resp.args.id = 2
    /\ resp.args.has = {"name", "ntfy_topic", "enabled"}
    /\ resp.args.name = channels[2].name
    /\ resp.args.ntfy_topic = channels[2].ntfy_topic
    /\ channels[1].exists
    /\ ~channels[2].enabled
    /\ NamesAndTopicsUnique

\* ------------------------------------------- properties of the trigger's zone
\* C21: the reminder "0 8 * * *" of America/Vancouver fires at 08:00 local
\* wall-clock time before and after a daylight-saving transition: at 16:00
\* UTC while Vancouver is on standard time and at 15:00 UTC while it is on
\* daylight time, and never twice for one instant.
C21_FiresAtEightLocal ==
    \A f \in fired :
        f[1] = 1 /\ reminders[1].cron = CronDaily8
                 /\ reminders[1].timezone = "America/Vancouver" =>
            f[2] % 24 = IF DstStart <= f[2] /\ f[2] < DstEnd THEN 15 ELSE 16

\* C21, its case: a fire on the Saturday before the spring transition and a
\* fire on the Sunday of the transition, an hour earlier in UTC.
C21_Witness ==
    /\ reminders[1].cron = CronDaily8
    /\ <<1, DstStart - 18>> \in fired
    /\ <<1, DstStart + 5>> \in fired
    /\ (DstStart - 18) % 24 = 16
    /\ (DstStart + 5) % 24 = 15

\* A parse the synthesizer cannot turn into a valid cron: hour or minute out
\* of range, weekly without a day, or a field no cron has.
Unsynthesizable(p) ==
    \/ p.hour.k = "int" /\ p.hour.v[1] \notin 0..23
    \/ p.minute.k = "int" /\ p.minute.v[1] \notin 0..59
    \/ p.type = "weekly" /\ p.day_of_week.k \in {"absent", "null"}
    \/ p.type = "weekly" /\ p.day_of_week = ListVal(<<>>)
    \/ p.type \in {"monthly", "yearly"} /\ p.day_of_month.k = "int"
          /\ p.day_of_month.v[1] \notin 1..31

\* The request just answered had an answer of the translation service.
Answered ==
    Served({"create_ai_reminder"}) /\ "parse" \in DOMAIN resp'.args

\* C22: when the collaborator's output cannot be synthesized into a valid
\* cron, the AI create endpoint answers 422 and persists no reminder and no
\* channel association.
C22_UnsynthesizableRejected ==
    [][Answered /\ resp'.args.answer = "json" /\ resp'.args.timed
          /\ Unsynthesizable(resp'.args.parse) =>
           /\ resp'.status = 422
           /\ UNCHANGED storeVars]_vars

C22_Witness ==
    /\ resp.op = "create_ai_reminder"
    /\ resp.status = 422
    /\ resp.args.channel_ids = <<1>>
    /\ "parse" \in DOMAIN resp.args
    /\ resp.args.answer = "json" /\ resp.args.timed
    /\ Strip(resp.args.title) # <<>>
    /\ resp.args.timezone = Absent
    /\ resp.args.parse.hour = IntVal(8)
    /\ resp.args.parse.minute = IntVal(0)
    /\ resp.args.parse.type = "weekly"
    /\ resp.args.parse.day_of_week = ListVal(<<>>)
    /\ edits = 1
    /\ nextRemId = 2

\* ------------------------------------------------ properties of the migration
\* C23: a second run of the migration on the store a first successful run
\* left, the old tables kept, creates no channel and no reminder-channel
\* association and changes no reminder timezone: at every point of the
\* second run, its last included, the store equals the store after the
\* first.  The runs are those the API answered no request during.
C23_MigrationIdempotent ==
    (/\ mig.run = 2 /\ mig.pc \notin {"idle", "done", "failed"}
     /\ mig.quiet1 /\ mig.before = mig.after1 /\ mig.served = edits)
        => <<channels, reminder_channels, reminders>> = SubSeq(mig.after1, 1, 3)

C23_Witness ==
    /\ mig.pc = "finish" /\ mig.run = 2 /\ mig.before = mig.after1
    /\ mig.quiet1 /\ mig.served = edits
    /\ channels[1].exists /\ channels[2].exists
    /\ channels[2].name = mig.alerts[1].name
    /\ reminder_channels[<<1, 2>>] = 1
    /\ reminder_channels[<<2, 1>>] = 1
    /\ mig.user_id[2] = 1 /\ mig.alert_channel_id[1] = 1
    /\ reminders[2].timezone = DefaultTz
    /\ mig.columns /\ mig.users_table /\ mig.alert_channels_table
    /\ <<channels, reminder_channels, reminders>> = SubSeq(mig.after1, 1, 3)

\* ------------------------------------- properties of the registry, continued
\* C24: a pass whose read of the enabled reminders fails changes nothing in
\* the registry: every trigger registered when the pass began is registered
\* after the failure.
C24_FailedReadKeepsRegistry ==
    pass.pc = "dead" => \A old \in pass.prev : \E j \in jobs : Trigger(j) = Trigger(old)

\* C25: every cron string the API accepted and persisted compiles into a
\* trigger: once a pass has read the store as it is, every enabled reminder
\* the API created has a job in the registry.
C25_AcceptedCronIsScheduled ==
    Settled => \A r \in RemIds :
        reminders[r].exists /\ reminders[r].enabled /\ CroniterAccepts(reminders[r].cron)
            => Scheduled(r)

\* generate_cron_description, line 320: the names a day-of-week digit shows.
days == <<"Sunday", "Monday", "Tuesday", "Wednesday", "Thursday", "Friday", "Saturday">>

\* The name of the day of the calendar that tick t falls on in UTC
\* (1970-01-01 was a Thursday).
DayName(t) == days[((4 + t \div 24) % 7) + 1]

\* C26: a reminder whose cron day-of-week field is the digit d fires only on
\* the day the description generator names for d, counting from Sunday = 0:
\* "0 14 * * 0" fires on Sundays only.
C26_FiresOnDescribedDay ==
    \A f \in fired :
        reminders[f[1]].exists /\ reminders[f[1]].timezone = "UTC"
        /\ reminders[f[1]].cron[5].k = "val" /\ reminders[f[1]].cron[5].a \in 0..6
            => DayName(f[2]) = days[reminders[f[1]].cron[5].a + 1]

\* C27: an enabled reminder whose persisted timezone is not a zone name is
\* left without a trigger by the pass that reads it (it is not scheduled in
\* another zone), and the other enabled reminders with a cron that compiles
\* are registered by that pass.
C27_BadZoneLeftUnscheduled ==
    Settled => \A r \in RemIds :
        reminders[r].exists /\ reminders[r].enabled =>
            IF reminders[r].timezone # "" /\ ~PytzKnows(reminders[r].timezone)
            THEN ~Scheduled(r)
            ELSE FromCrontabOk(reminders[r].cron) => Scheduled(r)

\* ------------------------------------------ properties of the associations
\* Every reminder_channels row names a reminder and a channel of the store.
NoDanglingAssociation ==
    \A p \in RemIds \X ChanIds :
        reminder_channels[p] > 0 => reminders[p[1]].exists /\ channels[p[2]].exists

\* C28: through any sequence of create, update and delete requests on
\* reminders and channels every association names an existing reminder and
\* an existing channel; a delete-channel for a channel a reminder is still
\* associated with is answered 400 and changes nothing; a delete-reminder
\* that succeeds leaves no association and no outcome of that reminder, one
\* that does not succeed changes nothing, and the delete of a user leaves
\* no association and no outcome of any of the user's reminders.
C28_AssociationsNeverDangle ==
    /\ NoDanglingAssociation
    /\ [][/\ NoDanglingAssociation'
          /\ Served({"delete_channel"})
             /\ (\E r \in RemIds : reminder_channels[<<r, resp'.args.id>>] > 0) =>
                 resp'.status = 400 /\ UNCHANGED storeVars
          /\ Served({"delete_reminder", "delete_reminder_legacy"})
             /\ resp'.status = 200 =>
                 /\ ~reminders'[resp'.args.id].exists
                 /\ \A c \in ChanIds : reminder_channels'[<<resp'.args.id, c>>] = 0
                 /\ \A i \in 1..Len(delivery_logs') :
                        delivery_logs'[i].reminder_id # resp'.args.id
          /\ Served({"delete_reminder", "delete_reminder_legacy"})
             /\ resp'.status # 200 => UNCHANGED storeVars
          /\ Served({"delete_user"}) /\ resp'.status = 200 =>
                 \A r \in RemIds : mig.user_id[r] = resp'.args.id =>
                     /\ ~reminders'[r].exists
                     /\ \A c \in ChanIds : reminder_channels'[<<r, c>>] = 0
                     /\ \A i \in 1..Len(delivery_logs') :
                            delivery_logs'[i].reminder_id # r]_vars

\* A delete-channel was refused for a channel in use, after the reminder
\* that used the other channel was deleted with its outcome.
C28_Witness ==
    /\ resp.op = "delete_channel" /\ resp.status = 400 /\ resp.args.id = 2
    /\ ~reminders[1].exists /\ delivery_logs = <<>>
    /\ reminder_channels[<<1, 1>>] = 0
    /\ reminders[2].exists /\ reminder_channels[<<2, 2>>] = 1
    /\ channels[2].exists

\* C29: through any sequence of create-reminder and update-reminder
\* requests on /api/reminders every reminder made there (its user_id is
\* NULL) has at least one associated channel, a request that would leave it
\* none being rejected.
C29_ReminderKeepsAChannel ==
    \A r \in RemIds :
        reminders[r].exists /\ mig.user_id[r] = 0 => \E c \in ChanIds : reminder_channels[<<r, c>>] > 0

\* C30: through any sequence of create-reminder and update-reminder
\* requests, those naming a channel twice included, the store holds at most
\* one association per reminder and channel.
C30_OneAssociationPerPair ==
    \A p \in RemIds \X ChanIds : reminder_channels[p] <= 1

====
